---- MODULE Spec2Model ----
(***************************************************************************)
(* A model of dataspot's pattern finder (Finder.execute) and of its        *)
(* comparison engine (Compare.execute).                                    *)
(*                                                                         *)
(* Representation.  A string that the code inspects character by character *)
(* (a pattern path) is a sequence of one-character strings.  A percentage  *)
(* is an integer number of hundredths of a percent (83.33 is 8333).  An    *)
(* optional value is a set with at most one element ({} is Python's None). *)
(* Pattern.samples is not modelled: nothing below reads it.                *)
(*                                                                         *)
(* State.  preprocessors is the registry of the Dataspot (its _base); op,  *)
(* input and options are the last call and its arguments, output what it   *)
(* returned or raised, locals the local variables of its handler.          *)
(***************************************************************************)
EXTENDS Integers, Sequences, FiniteSets, TLC

VARIABLES op, input, options, locals, output, preprocessors

vars == <<op, input, options, locals, output, preprocessors>>

-----------------------------------------------------------------------------
(* Bounds of the model. *)

MaxRecords == 4

MaxFilterRecords == 3

MaxCompareRecords == 2

-----------------------------------------------------------------------------
(* Optional values and small helpers. *)

None == {}

Some(v) == {v}

IsSet(o) == o # {}

Val(o) == CHOOSE v \in o : TRUE

Min(S) == CHOOSE x \in S : \A y \in S : x <= y

Take(s, n) == SubSeq(s, 1, IF n < Len(s) THEN n ELSE Len(s))

Elements(s) == {s[i] : i \in 1..Len(s)}

RECURSIVE SumSeq(_)
SumSeq(s) == IF s = <<>> THEN 0 ELSE Head(s) + SumSeq(Tail(s))

\* n / d rounded to the nearest integer, ties to even (n >= 0, d > 0).
RoundDiv(n, d) ==
    LET q == n \div d
        r == n % d
    IN  IF 2 * r > d THEN q + 1
        ELSE IF 2 * r < d THEN q
        ELSE IF q % 2 = 0 THEN q ELSE q + 1

\* s occurs in t as a contiguous run of characters (Python's `s in t`).
Contains(t, s) ==
    \E i \in 0..(Len(t) - Len(s)) : SubSeq(t, i + 1, i + Len(s)) = s

-----------------------------------------------------------------------------
(* Records.  A well-formed entry is a mapping with the fields c and d; the *)
(* value "" stands for a field the record does not carry.  dict = FALSE is *)
(* an entry that is no mapping at all.                                     *)

Record(cv, dv) == [dict |-> TRUE, c |-> cv, d |-> dv]

NonDict == [dict |-> FALSE, c |-> "", d |-> ""]

ValidRecords == {Record(cv, dv) : cv \in {"U", "E"}, dv \in {"m", ""}}

SeqsUpTo(S, n) == UNION {[1..k -> S] : k \in 0..n}

FieldLists == {<<>>, <<"c">>, <<"d">>, <<"c", "d">>, <<"d", "c">>}

\* A query maps some fields to the set of values it accepts.
NoQuery == [f \in {} |-> {}]

Query(f, vs) == [g \in {f} |-> vs]

Queries == {NoQuery, Query("c", {"U"}), Query("c", {"U", "E"}), Query("c", {"X"}),
            Query("d", {"m"})}

-----------------------------------------------------------------------------
(* Base: validation, query pre-filter, tree builder.                       *)

\* Base._validate_data: a data error when an entry is not a mapping.
ValidateData(data) == \A i \in 1..Len(data) : data[i].dict

RecordMatches(rec, query) ==
    \A f \in DOMAIN query : rec[f] # "" /\ rec[f] \in query[f]

\* Base._filter_data_by_query: an absent or empty query filters nothing.
FilterDataByQuery(data, query) ==
    SelectSeq(data, LAMBDA rec : RecordMatches(rec, query))

\* The integer 1, a value that is no text.
IntOne == "i1"

\* The text of a value: str(v).  A missing value is the empty text, the
\* integer 1 has the text of the string "1".
Str(v) == IF v = "" THEN <<>> ELSE IF v = IntOne THEN <<"1">> ELSE <<v>>

Segment(f, v) == <<f, "=">> \o Str(v)

Separator == <<" ", ">", " ">>

EmptyNode == [count |-> 0, keys |-> <<>>, children |-> [k \in {} |-> 0]]

\* One record walks the field list from `node` down: every node on its way
\* counts it, a child is created the first time its key is met.
RECURSIVE AddRecord(_, _, _)
AddRecord(node, rec, fs) ==
    IF fs = <<>>
    THEN [node EXCEPT !.count = @ + 1]
    ELSE LET k     == Segment(Head(fs), rec[Head(fs)])
             known == k \in DOMAIN node.children
             child == IF known THEN node.children[k] ELSE EmptyNode
         IN  [count    |-> node.count + 1,
              keys     |-> IF known THEN node.keys ELSE Append(node.keys, k),
              children |-> (k :> AddRecord(child, rec, Tail(fs))) @@ node.children]

RECURSIVE BuildFrom(_, _, _)
BuildFrom(node, data, fs) ==
    IF data = <<>> THEN node
    ELSE BuildFrom(AddRecord(node, Head(data), fs), Tail(data), fs)

\* Base._build_tree
BuildTree(data, fs) == BuildFrom(EmptyNode, data, fs)

\* The registry of a Dataspot no preprocessor was added to.
NoPreprocessors == [f \in {} |-> ""]

\* Two preprocessors a caller may register: "lower" puts a value in lower
\* case, "star" replaces every value by "*".
ApplyPreprocessor(preprocessor, v) ==
    IF preprocessor = "lower"
    THEN (IF v = "U" THEN "u" ELSE IF v = "E" THEN "e" ELSE v)
    ELSE "*"

\* Base.add_preprocessor: the preprocessor replaces the one the field had.
AddPreprocessorTo(registry, field_name, preprocessor) ==
    (field_name :> preprocessor) @@ registry

\* The value the tree builder groups record rec by for field f.
PreprocessValue(registry, f, v) ==
    IF f \in DOMAIN registry THEN ApplyPreprocessor(registry[f], v) ELSE v

PreprocessRecord(registry, rec) ==
    [f \in DOMAIN rec |->
        IF f = "dict" THEN rec[f] ELSE PreprocessValue(registry, f, rec[f])]

PreprocessData(registry, data) ==
    [i \in 1..Len(data) |-> PreprocessRecord(registry, data[i])]

\* Base._build_tree of an analyzer whose preprocessors are `registry`.
BuildTreeWith(registry, data, fs) == BuildTree(PreprocessData(registry, data), fs)

-----------------------------------------------------------------------------
(* PatternExtractor.                                                       *)

\* count / total * 100 rounded to 2 decimals, in hundredths; 0 when total is 0.
Percentage(count, total) ==
    IF total = 0 THEN 0 ELSE RoundDiv(count * 10000, total)

Pattern(path, count, total, depth) ==
    [path |-> path, count |-> count, percentage |-> Percentage(count, total),
     depth |-> depth]

\* The patterns of the nodes below `node`, depth first, children in the
\* order of their creation.
RECURSIVE Walk(_, _, _, _, _)
Walk(node, i, prefix, depth, total) ==
    IF i > Len(node.keys) THEN <<>>
    ELSE LET k     == node.keys[i]
             path  == IF prefix = <<>> THEN k ELSE prefix \o Separator \o k
             child == node.children[k]
         IN  <<Pattern(path, child.count, total, depth + 1)>>
             \o Walk(child, 1, path, depth + 1, total)
             \o Walk(node, i + 1, prefix, depth, total)

\* PatternExtractor.from_tree
FromTree(tree, total) == Walk(tree, 1, <<>>, 0, total)

-----------------------------------------------------------------------------
(* PatternFilter and the options of a find call.                           *)

\* A regular expression of the modelled class: an optional ^ anchor and a
\* sequence of character classes.  re.search semantics.
Regex(anchored, body) == [anchored |-> anchored, body |-> body]

MatchAt(re, path, i) ==
    /\ i + Len(re.body) <= Len(path)
    /\ \A j \in 1..Len(re.body) : path[i + j] \in re.body[j]

Search(re, path) ==
    IF re.anchored THEN MatchAt(re, path, 0)
    ELSE \E i \in 0..Len(path) : MatchAt(re, path, i)

DefaultOptions ==
    [min_percentage |-> None, max_percentage |-> None,
     min_count |-> None, max_count |-> None,
     min_depth |-> None, max_depth |-> None,
     contains |-> None, exclude |-> None, regex |-> None,
     limit |-> None, sort_by |-> None, reverse |-> None]

\* The predicates of the filter: every option that is set must accept p.
Accepts(p, o) ==
    /\ IsSet(o.min_percentage) => p.percentage >= Val(o.min_percentage)
    /\ IsSet(o.max_percentage) => p.percentage <= Val(o.max_percentage)
    /\ IsSet(o.min_count) => p.count >= Val(o.min_count)
    /\ IsSet(o.max_count) => p.count <= Val(o.max_count)
    /\ IsSet(o.min_depth) => p.depth >= Val(o.min_depth)
    /\ IsSet(o.max_depth) => p.depth <= Val(o.max_depth)
    /\ IsSet(o.contains) => Contains(p.path, Val(o.contains))
    /\ IsSet(o.exclude) => \A x \in Val(o.exclude) : ~Contains(p.path, x)
    /\ IsSet(o.regex) => Search(Val(o.regex), p.path)

KeyOf(p, sort_by) ==
    CASE sort_by = "percentage" -> p.percentage
      [] sort_by = "count" -> p.count
      [] sort_by = "depth" -> p.depth

\* x inserted into the sorted s behind every element that does not have to
\* follow it: what makes the sort stable, in either direction.
InsertByKey(s, x, sort_by, reverse) ==
    LET follows(e) == IF reverse THEN KeyOf(e, sort_by) < KeyOf(x, sort_by)
                      ELSE KeyOf(e, sort_by) > KeyOf(x, sort_by)
        later == {i \in 1..Len(s) : follows(s[i])}
        pos   == IF later = {} THEN Len(s) + 1 ELSE Min(later)
    IN  SubSeq(s, 1, pos - 1) \o <<x>> \o SubSeq(s, pos, Len(s))

RECURSIVE StableSort(_, _, _)
StableSort(s, sort_by, reverse) ==
    IF s = <<>> THEN <<>>
    ELSE InsertByKey(StableSort(SubSeq(s, 1, Len(s) - 1), sort_by, reverse),
                     s[Len(s)], sort_by, reverse)

SortFields == {"percentage", "count", "depth"}

\* The sort of the filter pipeline: by the named field, descending unless
\* reverse is given as false.
PipelineSort(ps, o) ==
    IF IsSet(o.sort_by) /\ Val(o.sort_by) \in SortFields
    THEN StableSort(ps, Val(o.sort_by),
                    IF IsSet(o.reverse) THEN Val(o.reverse) ELSE TRUE)
    ELSE ps

\* PatternFilter.apply_all: the predicates, the sort, then the limit.
ApplyAll(ps, o) ==
    LET kept   == SelectSeq(ps, LAMBDA p : Accepts(p, o))
        sorted == PipelineSort(kept, o)
    IN  IF IsSet(o.limit) THEN Take(sorted, Val(o.limit)) ELSE sorted

-----------------------------------------------------------------------------
(* Finder.                                                                 *)

\* A variant that sorts in descending order whatever `reverse` says.
SortPatternsDescending(ps, sort_by, reverse) ==
    IF sort_by \in SortFields THEN StableSort(ps, sort_by, TRUE) ELSE ps

\* A variant that sorts in ascending order whatever `reverse` says.
SortPatternsAscending(ps, sort_by, reverse) ==
    IF sort_by \in SortFields THEN StableSort(ps, sort_by, FALSE) ELSE ps

\* Finder._sort_patterns
SortPatterns(ps, sort_by, reverse) ==
    IF sort_by = "percentage" THEN StableSort(ps, "percentage", reverse)
    ELSE IF sort_by = "count" THEN StableSort(ps, "count", reverse)
    ELSE IF sort_by = "depth" THEN StableSort(ps, "depth", reverse)
    ELSE ps

FindOutput(ps, total) ==
    [status |-> "ok", patterns |-> ps, total_records |-> total,
     total_patterns |-> Len(ps)]

DataError == [status |-> "DataError", patterns |-> <<>>, total_records |-> 0,
              total_patterns |-> 0]

NoLocals == [filtered_data |-> <<>>, patterns |-> <<>>, built |-> FALSE]

\* A variant that rejects an empty field list.
EmptyFieldsRejected(in) == DataError

\* The result of Finder.execute for an empty field list.
EmptyFieldsResult(in) == FindOutput(<<>>, Len(in.data))

\* A variant that rejects a call left without records.
NoDataRejected(in) == DataError

\* The result of Finder.execute when the query leaves no record.
NoDataResult(in) == FindOutput(<<>>, Len(in.data))

\* The records Finder.execute builds its tree from.
FilteredData(in) == FilterDataByQuery(in.data, in.query)

\* A variant that builds the tree from the unfiltered input.
ExtractedFromInput(in) ==
    FromTree(BuildTree(in.data, in.fields), Len(FilteredData(in)))

\* A variant that takes the size of the unfiltered input as the total.
ExtractedOverInputSize(in) ==
    FromTree(BuildTree(FilteredData(in), in.fields), Len(in.data))

\* The patterns Finder.execute extracts, before any pattern filter.
ExtractedPatterns(in) ==
    FromTree(BuildTree(FilteredData(in), in.fields), Len(FilteredData(in)))

\* A variant that returns the extracted patterns unfiltered.
UnfilteredPatterns(in, o) == ExtractedPatterns(in)

\* The patterns Finder.execute keeps.
FilteredPatterns(in, o) == ApplyAll(ExtractedPatterns(in), o)

\* The sort Finder.execute applies when sort_by is given.
SortedPatterns(ps, o) ==
    IF IsSet(o.sort_by)
    THEN SortPatterns(ps, Val(o.sort_by),
                      IF IsSet(o.reverse) THEN Val(o.reverse) ELSE TRUE)
    ELSE ps

\* The result Finder.execute returns after Build -> Extract -> Filter.
FoundResult(in, o) ==
    FindOutput(SortedPatterns(FilteredPatterns(in, o), o), Len(FilteredData(in)))

\* Finder.execute
Execute(in, o) ==
    IF ~ValidateData(in.data) THEN DataError
    ELSE IF in.fields = <<>> THEN EmptyFieldsResult(in)
    ELSE IF FilteredData(in) = <<>> THEN NoDataResult(in)
    ELSE FoundResult(in, o)

\* The local variables of Finder.execute when it returns.
ExecuteLocals(in) ==
    IF ~ValidateData(in.data) \/ in.fields = <<>> THEN NoLocals
    ELSE IF FilteredData(in) = <<>>
    THEN [filtered_data |-> <<>>, patterns |-> <<>>, built |-> FALSE]
    ELSE [filtered_data |-> FilteredData(in), patterns |-> ExtractedPatterns(in),
          built |-> TRUE]

FindInput(data, fields, query) ==
    [data |-> data, fields |-> fields, query |-> query]

-----------------------------------------------------------------------------
(* The state machine.  A call leaves nothing behind in the Dataspot, so    *)
(* every call starts from a fresh one: an initial state holds the call as  *)
(* issued (its arguments), the one action runs the handler to its return.  *)

NoOutput == [status |-> "none"]

\* A find call issued with arguments drawn from the given sets.
FindIssued(DataSet, FieldSet, QuerySet, OptionSet) ==
    /\ op = "none"
    /\ input \in {FindInput(data, fields, query) :
                     data \in DataSet, fields \in FieldSet, query \in QuerySet}
    /\ options \in OptionSet
    /\ locals = NoLocals
    /\ output = NoOutput
    /\ preprocessors = NoPreprocessors

\* Dataspot.find: Finder.execute runs on the arguments and returns.
Find ==
    /\ op = "none"
    /\ op' = "find"
    /\ locals' = ExecuteLocals(input)
    /\ output' = Execute(input, options)
    /\ UNCHANGED <<input, options, preprocessors>>

FindOptionSamples ==
    {DefaultOptions,
     [DefaultOptions EXCEPT !.min_count = Some(2), !.limit = Some(1),
                            !.sort_by = Some("count")]}

\* find calls on records that may be malformed.
InitFind ==
    FindIssued(SeqsUpTo(ValidRecords \cup {NonDict}, MaxRecords), FieldLists,
               Queries, FindOptionSamples)

SpecFind == InitFind /\ [][Find]_vars

\* The values each pattern predicate is tried with.
PredicateOptions ==
    [min_percentage : {None, Some(10000)}, max_percentage : {None, Some(5000)},
     min_count : {None, Some(2)}, max_count : {None, Some(1)},
     min_depth : {None, Some(2)}, max_depth : {None, Some(1)},
     contains : {None, Some(<<"=", "U">>)},
     exclude : {None, Some({<<"E">>, <<"d", "=", "m">>})},
     regex : {None, Some(Regex(TRUE, <<{"c"}, {"="}, {"U", "E"}, {" "}>>))},
     limit : {None}, sort_by : {None}, reverse : {None}]

\* find calls with every combination of pattern predicates.
InitFilter ==
    FindIssued(SeqsUpTo(ValidRecords, MaxFilterRecords), {<<"c", "d">>, <<"d">>}, {NoQuery},
               PredicateOptions)

SpecFilter == InitFilter /\ [][Find]_vars

\* The sort, direction and limit options, with and without a predicate.
SortOptions ==
    [min_percentage : {None}, max_percentage : {None},
     min_count : {None}, max_count : {None, Some(1)},
     min_depth : {None}, max_depth : {None},
     contains : {None}, exclude : {None}, regex : {None},
     limit : {None, Some(1), Some(2)},
     sort_by : {None, Some("percentage"), Some("count"), Some("depth")},
     reverse : {None, Some(TRUE), Some(FALSE)}]

\* find calls that sort and truncate.
InitSort ==
    FindIssued(SeqsUpTo(ValidRecords, MaxRecords), {<<"c", "d">>}, {NoQuery},
               SortOptions)

SpecSort == InitSort /\ [][Find]_vars

-----------------------------------------------------------------------------
(* Compare.  A number that can be infinite (count_change_percentage,       *)
(* relative_change) is a fraction num / den with an `inf` flag; the        *)
(* change threshold is given in hundredths (15 is 0.15).                   *)

Fraction(num, den) == [inf |-> FALSE, num |-> num, den |-> den]

Infinite == [inf |-> TRUE, num |-> 0, den |-> 1]

Abs(x) == IF x < 0 THEN -x ELSE x

\* The records Compare.execute analyses: filtered when a query is given.
CompareData(data, query) ==
    IF DOMAIN query # {} THEN FilterDataByQuery(data, query) ELSE data

CurrentData(in) == CompareData(in.current_data, in.query)

\* A variant that leaves the baseline unfiltered.
BaselineUnfiltered(in) == in.baseline_data

BaselineData(in) == CompareData(in.baseline_data, in.query)

FindOptionsOf(o) ==
    [k \in DOMAIN DefaultOptions |-> o[k]]

\* Compare._get_patterns: the patterns Finder returns, keyed by path.
GetPatterns(data, fields, o) ==
    LET ps == Execute(FindInput(data, fields, NoQuery), FindOptionsOf(o)).patterns
    IN  [path \in {ps[i].path : i \in 1..Len(ps)} |->
            LET p == CHOOSE q \in Elements(ps) : q.path = path
            IN  [count |-> p.count, percentage |-> p.percentage, depth |-> p.depth]]

\* What _compare_patterns reads for a path a pattern set does not hold.
Absent == [count |-> 0, percentage |-> 0]

Lookup(patterns, path) ==
    IF path \in DOMAIN patterns THEN patterns[path] ELSE Absent

\* A variant whose rungs are strict: a percentage on a threshold falls to
\* the rung below.
GetChangeStatusStrict(pct) ==
    LET Above(t) == pct.num > t * pct.den IN
    IF pct.inf THEN "NEW"
    ELSE IF Above(200) THEN "CRITICAL_INCREASE"
    ELSE IF Above(100) THEN "SIGNIFICANT_INCREASE"
    ELSE IF Above(50) THEN "INCREASE"
    ELSE IF Above(15) THEN "SLIGHT_INCREASE"
    ELSE IF Above(-15) THEN "STABLE"
    ELSE IF Above(-50) THEN "SLIGHT_DECREASE"
    ELSE IF Above(-80) THEN "DECREASE"
    ELSE IF Above(-100) THEN "CRITICAL_DECREASE"
    ELSE "DISAPPEARED"

\* Compare._get_change_status
GetChangeStatus(pct) ==
    LET AtLeast(t) == pct.num >= t * pct.den IN
    IF pct.inf THEN "NEW"
    ELSE IF AtLeast(200) THEN "CRITICAL_INCREASE"
    ELSE IF AtLeast(100) THEN "SIGNIFICANT_INCREASE"
    ELSE IF AtLeast(50) THEN "INCREASE"
    ELSE IF AtLeast(15) THEN "SLIGHT_INCREASE"
    ELSE IF AtLeast(-15) THEN "STABLE"
    ELSE IF AtLeast(-50) THEN "SLIGHT_DECREASE"
    ELSE IF AtLeast(-80) THEN "DECREASE"
    ELSE IF AtLeast(-100) THEN "CRITICAL_DECREASE"
    ELSE "DISAPPEARED"

\* count_change_percentage of _compare_patterns
CountChangePct(current, baseline) ==
    IF baseline.count > 0
    THEN Fraction((current.count - baseline.count) * 100, baseline.count)
    ELSE IF current.count > 0 THEN Infinite ELSE Fraction(0, 1)

\* relative_change of _compare_patterns
RelativeChange(current, baseline) ==
    IF baseline.count > 0
    THEN Fraction(current.count - baseline.count, baseline.count)
    ELSE IF current.count > 0 THEN Infinite ELSE Fraction(0, 1)

\* A variant that judges a brand-new pattern by the threshold as well.
IsSignificantByThreshold(current, baseline, change_threshold) ==
    LET rel == RelativeChange(current, baseline) IN
    IF ~rel.inf THEN Abs(rel.num) * 100 >= change_threshold * rel.den
    ELSE current.count * 100 >= change_threshold

\* is_significant of _compare_patterns
IsSignificant(current, baseline, change_threshold) ==
    LET rel == RelativeChange(current, baseline) IN
    IF ~rel.inf THEN Abs(rel.num) * 100 >= change_threshold * rel.den
    ELSE current.count > 5

\* A variant that tells a new path by its absence from the current set.
IsNewSwapped(path, current_patterns, baseline_patterns) ==
    path \notin DOMAIN current_patterns

\* is_new of _compare_patterns
IsNew(path, current_patterns, baseline_patterns) ==
    path \notin DOMAIN baseline_patterns

\* is_disappeared of _compare_patterns
IsDisappeared(path, current_patterns, baseline_patterns) ==
    path \notin DOMAIN current_patterns

\* The statistics collaborator's result for two counts, uninterpreted.
Analysis(current_count, baseline_count) == {<<current_count, baseline_count>>}

\* change_info of _compare_patterns for one path
ChangeInfo(path, cps, bps, statistical_significance, change_threshold) ==
    LET current  == Lookup(cps, path)
        baseline == Lookup(bps, path)
        pct      == CountChangePct(current, baseline)
    IN  [path |-> path,
         current_count |-> current.count,
         baseline_count |-> baseline.count,
         count_change |-> current.count - baseline.count,
         count_change_percentage |-> pct,
         relative_change |-> RelativeChange(current, baseline),
         current_percentage |-> current.percentage,
         baseline_percentage |-> baseline.percentage,
         percentage_change |-> current.percentage - baseline.percentage,
         status |-> GetChangeStatus(pct),
         is_new |-> IsNew(path, cps, bps),
         is_disappeared |-> IsDisappeared(path, cps, bps),
         is_significant |-> IsSignificant(current, baseline, change_threshold),
         depth |-> IF path \in DOMAIN cps THEN cps[path].depth
                   ELSE IF path \in DOMAIN bps THEN bps[path].depth ELSE 1,
         statistical_significance |->
             IF statistical_significance /\ baseline.count > 0 /\ current.count > 0
             THEN Analysis(current.count, baseline.count) ELSE {}]

\* The sort key of a change: (is_significant, |count_change_percentage|),
\* an infinite percentage counting as 1000.
Magnitude(ch) ==
    IF ch.count_change_percentage.inf THEN Fraction(1000, 1)
    ELSE Fraction(Abs(ch.count_change_percentage.num), ch.count_change_percentage.den)

\* The key of a is smaller than the key of b.
KeyLess(a, b) ==
    \/ ~a.is_significant /\ b.is_significant
    \/ /\ a.is_significant = b.is_significant
       /\ Magnitude(a).num * Magnitude(b).den < Magnitude(b).num * Magnitude(a).den

\* changes.sort(key = ..., reverse = True): stable, greatest key first.
RECURSIVE SortChanges(_)
SortChanges(s) ==
    IF s = <<>> THEN <<>>
    ELSE LET rest  == SortChanges(SubSeq(s, 1, Len(s) - 1))
             x     == s[Len(s)]
             later == {i \in 1..Len(rest) : KeyLess(rest[i], x)}
             pos   == IF later = {} THEN Len(rest) + 1 ELSE Min(later)
         IN  SubSeq(rest, 1, pos - 1) \o <<x>> \o SubSeq(rest, pos, Len(rest))

\* Compare._compare_patterns, the paths being visited in the order `order`.
ComparePatterns(cps, bps, order, statistical_significance, change_threshold) ==
    SortChanges([i \in 1..Len(order) |->
        ChangeInfo(order[i], cps, bps, statistical_significance, change_threshold)])

HasWord(status, word) ==
    IF word = "INCREASE"
    THEN status \in {"CRITICAL_INCREASE", "SIGNIFICANT_INCREASE", "INCREASE",
                     "SLIGHT_INCREASE"}
    ELSE status \in {"CRITICAL_DECREASE", "DECREASE", "SLIGHT_DECREASE"}

Reverse(s) == [i \in 1..Len(s) |-> s[Len(s) + 1 - i]]

\* A variant that fills every bucket from the end of the changes list.
CategorizePatternsFromEnd(changes) ==
    [stable_patterns |-> SelectSeq(Reverse(changes), LAMBDA c : c.status = "STABLE"),
     new_patterns |-> SelectSeq(Reverse(changes), LAMBDA c : c.is_new),
     disappeared_patterns |-> SelectSeq(Reverse(changes), LAMBDA c : c.is_disappeared),
     increased_patterns |->
         SelectSeq(Reverse(changes), LAMBDA c : HasWord(c.status, "INCREASE")),
     decreased_patterns |->
         SelectSeq(Reverse(changes), LAMBDA c : HasWord(c.status, "DECREASE"))]

\* A variant whose buckets of increases and decreases hold the plain statuses
\* INCREASE and DECREASE only.
CategorizePatternsExact(changes) ==
    [stable_patterns |-> SelectSeq(changes, LAMBDA c : c.status = "STABLE"),
     new_patterns |-> SelectSeq(changes, LAMBDA c : c.is_new),
     disappeared_patterns |-> SelectSeq(changes, LAMBDA c : c.is_disappeared),
     increased_patterns |-> SelectSeq(changes, LAMBDA c : c.status = "INCREASE"),
     decreased_patterns |-> SelectSeq(changes, LAMBDA c : c.status = "DECREASE")]

\* Compare._categorize_patterns
CategorizePatterns(changes) ==
    [stable_patterns |-> SelectSeq(changes, LAMBDA c : c.status = "STABLE"),
     new_patterns |-> SelectSeq(changes, LAMBDA c : c.is_new),
     disappeared_patterns |-> SelectSeq(changes, LAMBDA c : c.is_disappeared),
     increased_patterns |-> SelectSeq(changes, LAMBDA c : HasWord(c.status, "INCREASE")),
     decreased_patterns |-> SelectSeq(changes, LAMBDA c : HasWord(c.status, "DECREASE"))]

\* The orders in which a set can be iterated.
Orders(S) ==
    {s \in [1..Cardinality(S) -> S] : \A i, j \in 1..Cardinality(S) : s[i] = s[j] => i = j}

CompareInput(current_data, baseline_data, fields, query) ==
    [current_data |-> current_data, baseline_data |-> baseline_data,
     fields |-> fields, query |-> query]

\* A variant that diffs against the unfiltered patterns of the baseline.
CompareLocalsRawBaseline(in, o) ==
    [current_patterns |-> GetPatterns(CurrentData(in), in.fields, o),
     baseline_patterns |->
         GetPatterns(BaselineData(in), in.fields,
                     [k \in DOMAIN o |-> IF k \in DOMAIN DefaultOptions
                                         THEN DefaultOptions[k] ELSE o[k]])]

\* The pattern sets Compare.execute diffs.
CompareLocals(in, o) ==
    [current_patterns |-> GetPatterns(CurrentData(in), in.fields, o),
     baseline_patterns |-> GetPatterns(BaselineData(in), in.fields, o)]

\* A variant whose totals are the sizes of the query-filtered datasets.
CompareOutputFilteredTotals(in, o, l, order) ==
    LET changes == ComparePatterns(l.current_patterns, l.baseline_patterns, order,
                                   o.statistical_significance, o.change_threshold)
        buckets == CategorizePatterns(changes)
    IN  [status |-> "ok",
         changes |-> changes,
         stable_patterns |-> buckets.stable_patterns,
         new_patterns |-> buckets.new_patterns,
         disappeared_patterns |-> buckets.disappeared_patterns,
         increased_patterns |-> buckets.increased_patterns,
         decreased_patterns |-> buckets.decreased_patterns,
         statistics |->
             [current_total |-> Len(CurrentData(in)),
              baseline_total |-> Len(BaselineData(in)),
              patterns_compared |-> Len(changes),
              significant_changes |->
                  Len(SelectSeq(changes, LAMBDA c : c.is_significant))],
         fields_analyzed |-> in.fields,
         change_threshold |-> o.change_threshold,
         statistical_significance |-> o.statistical_significance]

\* What Compare.execute returns for the pattern sets l, the union of their
\* paths being iterated in `order`.
CompareOutput(in, o, l, order) ==
    LET changes == ComparePatterns(l.current_patterns, l.baseline_patterns, order,
                                   o.statistical_significance, o.change_threshold)
        buckets == CategorizePatterns(changes)
    IN  [status |-> "ok",
         changes |-> changes,
         stable_patterns |-> buckets.stable_patterns,
         new_patterns |-> buckets.new_patterns,
         disappeared_patterns |-> buckets.disappeared_patterns,
         increased_patterns |-> buckets.increased_patterns,
         decreased_patterns |-> buckets.decreased_patterns,
         statistics |->
             [current_total |-> Len(in.current_data),
              baseline_total |-> Len(in.baseline_data),
              patterns_compared |-> Len(changes),
              significant_changes |->
                  Len(SelectSeq(changes, LAMBDA c : c.is_significant))],
         fields_analyzed |-> in.fields,
         change_threshold |-> o.change_threshold,
         statistical_significance |-> o.statistical_significance]

\* A compare call issued with arguments drawn from the given sets.
CompareIssued(DataSet, FieldSet, QuerySet, OptionSet) ==
    /\ op = "none"
    /\ input \in {CompareInput(cur, base, fields, query) :
                     cur \in DataSet, base \in DataSet, fields \in FieldSet,
                     query \in QuerySet}
    /\ options \in OptionSet
    /\ locals = NoLocals
    /\ output = NoOutput
    /\ preprocessors = NoPreprocessors

\* Dataspot.compare: Compare.execute runs on the arguments and returns.  The
\* paths of the two pattern sets are collected in a set of strings, whose
\* iteration order is any order.
Compare ==
    /\ op = "none"
    /\ op' = "compare"
    /\ UNCHANGED <<input, options, preprocessors>>
    /\ IF ValidateData(input.current_data) /\ ValidateData(input.baseline_data)
       THEN /\ locals' = CompareLocals(input, options)
            /\ \E order \in Orders(DOMAIN locals'.current_patterns
                                     \cup DOMAIN locals'.baseline_patterns) :
                   output' = CompareOutput(input, options, locals', order)
       ELSE /\ locals' = NoLocals
            /\ output' = DataError

CompareRecords == {Record("U", "m"), Record("E", "m"), Record("E", "")}

CompareOption(fo, change_threshold, statistical_significance) ==
    [k \in DOMAIN fo \cup {"change_threshold", "statistical_significance"} |->
        IF k = "change_threshold" THEN change_threshold
        ELSE IF k = "statistical_significance" THEN statistical_significance
        ELSE fo[k]]

CompareOptions ==
    {CompareOption(DefaultOptions, 0, FALSE),
     CompareOption(DefaultOptions, 15, FALSE),
     CompareOption([DefaultOptions EXCEPT !.min_count = Some(2)], 15, FALSE),
     CompareOption([DefaultOptions EXCEPT !.limit = Some(1)], 15, FALSE),
     CompareOption(DefaultOptions, 100, TRUE)}

\* compare calls on single-field lists.
InitCompare ==
    CompareIssued(SeqsUpTo(CompareRecords, MaxCompareRecords), {<<"c">>, <<"d">>, <<"c", "d">>},
                  {NoQuery, Query("c", {"E"})}, CompareOptions)

SpecCompare == InitCompare /\ [][Compare]_vars

-----------------------------------------------------------------------------
(* Compare._compare_patterns on its own: the two pattern sets are drawn     *)
(* directly, so that every rung of the status ladder and both branches of  *)
(* is_significant are met.  A pattern Finder returns counts at least one   *)
(* record.                                                                 *)

MaxCount == 23

PathU == <<"c", "=", "U">>

PathE == <<"c", "=", "E">>

\* The entry _get_patterns stores for a pattern of `count` records.
PatternEntry(count) ==
    [count |-> count, percentage |-> Percentage(count, MaxCount + 1), depth |-> 1]

\* A pattern set holding PathU and PathE with the given counts; a count of 0
\* is a path the set does not hold.
PatternDict(nU, nE) ==
    [path \in {p \in {PathU, PathE} : IF p = PathU THEN nU > 0 ELSE nE > 0} |->
        PatternEntry(IF path = PathU THEN nU ELSE nE)]

\* The <<current, baseline>> counts PathE is drawn with.
OtherCounts == {<<0, 0>>, <<1, 0>>, <<0, 1>>, <<2, 1>>, <<6, 0>>}

ChangeOptions ==
    [change_threshold : {0, 15, 50, 100}, statistical_significance : {FALSE, TRUE}]

\* A _compare_patterns call issued on drawn pattern sets.
InitChange ==
    /\ op = "none"
    /\ \E cU \in 0..MaxCount, bU \in 0..MaxCount, other \in OtherCounts :
           /\ cU + bU > 0
           /\ input = [current_patterns |-> PatternDict(cU, other[1]),
                       baseline_patterns |-> PatternDict(bU, other[2])]
    /\ options \in ChangeOptions
    /\ locals = NoLocals
    /\ output = NoOutput
    /\ preprocessors = NoPreprocessors

\* Compare._compare_patterns runs on the two pattern sets and returns.
ComparePatternsCall ==
    /\ op = "none"
    /\ op' = "compare_patterns"
    /\ \E order \in Orders(DOMAIN input.current_patterns
                             \cup DOMAIN input.baseline_patterns) :
           output' = [status |-> "ok",
                      changes |-> ComparePatterns(input.current_patterns,
                                                  input.baseline_patterns, order,
                                                  options.statistical_significance,
                                                  options.change_threshold)]
    /\ UNCHANGED <<input, options, locals, preprocessors>>

\* Compare.execute hands the changes to _categorize_patterns.
CategorizeCall ==
    /\ op = "compare_patterns"
    /\ op' = "categorize"
    /\ output' = LET buckets == CategorizePatterns(output.changes)
                 IN  [status |-> "ok",
                      changes |-> output.changes,
                      stable_patterns |-> buckets.stable_patterns,
                      new_patterns |-> buckets.new_patterns,
                      disappeared_patterns |-> buckets.disappeared_patterns,
                      increased_patterns |-> buckets.increased_patterns,
                      decreased_patterns |-> buckets.decreased_patterns]
    /\ UNCHANGED <<input, options, locals, preprocessors>>

NextChange == ComparePatternsCall \/ CategorizeCall

SpecChange == InitChange /\ [][NextChange]_vars

-----------------------------------------------------------------------------
(* Discovery.  The records of a discover call carry the fields c, d and e. *)
(* input.raising is the set of fields on which a Finder run raises: the    *)
(* failure of one field that _score_fields_by_potential catches.  A score  *)
(* is held in two-hundredths (score * 200), which keeps the weights 0.5, 5 *)
(* and 0.5 of the scoring formula exact on percentages held in hundredths. *)

MaxDiscoverRecords == 3

SampleSize == 100

ScoringMinPercentage == 500

SignificantPercentage == 1000

TopPatternsLimit == 20

Record3(cv, dv, ev) == [dict |-> TRUE, c |-> cv, d |-> dv, e |-> ev]

\* record.keys(): the fields the record carries.
Keys(rec) == {f \in {"c", "d", "e"} : rec[f] # ""}

\* all_fields of _detect_categorical_fields: the fields of the sampled records.
AllFields(data) ==
    UNION {Keys(data[i]) : i \in 1..Len(Take(data, SampleSize))}

\* A variant that reads every record, not the sample only.
IsSuitableForAnalysisUnsampled(data, field, sample_size) ==
    LET non_null_values == SelectSeq(data, LAMBDA rec : rec[field] # "")
        unique_values   == Cardinality({Str(non_null_values[i][field]) :
                                           i \in 1..Len(non_null_values)})
        total_values    == Len(non_null_values)
    IN  IF total_values < 2 THEN FALSE
        ELSE IF unique_values <= 1 THEN FALSE
        ELSE IF total_values <= 5 THEN unique_values >= 2
        ELSE /\ unique_values >= 2
             /\ unique_values * 10 <= total_values * 8
             /\ unique_values * 100 < 95 * total_values

\* Discovery._is_suitable_for_analysis
IsSuitableForAnalysis(data, field, sample_size) ==
    LET sample          == Take(data, sample_size)
        non_null_values == SelectSeq(sample, LAMBDA rec : rec[field] # "")
        unique_values   == Cardinality({Str(non_null_values[i][field]) :
                                           i \in 1..Len(non_null_values)})
        total_values    == Len(non_null_values)
    IN  IF total_values < 2 THEN FALSE
        ELSE IF unique_values <= 1 THEN FALSE
        ELSE IF total_values <= 5 THEN unique_values >= 2
        ELSE /\ unique_values >= 2
             /\ unique_values * 10 <= total_values * 8
             /\ unique_values * 100 < 95 * total_values

\* Discovery._detect_categorical_fields, the set all_fields being iterated
\* in the order `order`.
DetectCategoricalFields(data, order) ==
    SelectSeq(order, LAMBDA field :
        IsSuitableForAnalysis(data, field, Min({SampleSize, Len(data)})))

\* What a Finder run that raises leaves its caller with.
FinderRaised == [status |-> "FinderError", patterns |-> <<>>, total_records |-> 0,
                 total_patterns |-> 0]

\* A variant whose Finder leaves out the records that lack one of the fields.
FinderRunOnCompleteRecords(data, fields, find_options, raising) ==
    IF Elements(fields) \cap raising # {} THEN FinderRaised
    ELSE Execute(FindInput(SelectSeq(data, LAMBDA rec :
                                         \A f \in Elements(fields) : rec[f] # ""),
                           fields, NoQuery), find_options)

\* finder.execute(FindInput(data = data, fields = fields), find_options) in
\* Discovery: the Finder is a fresh one.
FinderRun(data, fields, find_options, raising) ==
    IF Elements(fields) \cap raising # {} THEN FinderRaised
    ELSE Execute(FindInput(data, fields, NoQuery), find_options)

\* find_options of _score_fields_by_potential: the floor is lowered to 5%.
ScoringFindOptions(o) ==
    [k \in DOMAIN DefaultOptions |->
        IF k = "min_percentage" THEN Some(ScoringMinPercentage) ELSE o[k]]

Max(S) == CHOOSE x \in S : \A y \in S : x >= y

\* Discovery._calculate_field_score, times 200.
CalculateFieldScore(patterns) ==
    IF patterns = <<>> THEN 0
    ELSE Max({patterns[i].percentage : i \in 1..Len(patterns)})
         + 1000 * Len(SelectSeq(patterns,
                                LAMBDA p : p.percentage >= SignificantPercentage))
         + 100 * Len(patterns)

\* The entry _score_fields_by_potential appends for one field: its score,
\* or 0 when the Finder run raised.
FieldScore(data, field, o, raising) ==
    LET found == FinderRun(data, <<field>>, ScoringFindOptions(o), raising)
    IN  IF found.status = "ok"
        THEN <<[field |-> field, score |-> CalculateFieldScore(found.patterns)]>>
        ELSE <<[field |-> field, score |-> 0]>>

\* sorted(field_scores, key = score, reverse = True): stable.
RECURSIVE SortFieldScores(_)
SortFieldScores(s) ==
    IF s = <<>> THEN <<>>
    ELSE LET rest  == SortFieldScores(SubSeq(s, 1, Len(s) - 1))
             x     == s[Len(s)]
             later == {i \in 1..Len(rest) : rest[i].score < x.score}
             pos   == IF later = {} THEN Len(rest) + 1 ELSE Min(later)
         IN  SubSeq(rest, 1, pos - 1) \o <<x>> \o SubSeq(rest, pos, Len(rest))

RECURSIVE FieldScores(_, _, _, _)
FieldScores(data, fields, o, raising) ==
    IF fields = <<>> THEN <<>>
    ELSE FieldScore(data, Head(fields), o, raising)
         \o FieldScores(data, Tail(fields), o, raising)

\* Discovery._score_fields_by_potential
ScoreFieldsByPotential(data, fields, o, raising) ==
    SortFieldScores(FieldScores(data, fields, o, raising))

\* itertools.combinations(s, k): the k-element subsequences of s, in
\* lexicographic order of their positions.
RECURSIVE Combinations(_, _)
Combinations(s, k) ==
    IF k = 0 THEN <<<<>>>>
    ELSE IF Len(s) < k THEN <<>>
    ELSE LET with == Combinations(Tail(s), k - 1)
         IN  [i \in 1..Len(with) |-> <<Head(s)>> \o with[i]]
             \o Combinations(Tail(s), k)

\* top_fields of _discover_pattern_combinations
TopFields(field_scores, o) ==
    LET n == Min({o.max_fields + 2, Len(field_scores)})
    IN  [i \in 1..n |-> field_scores[i].field]

\* A variant that attempts every combination of a size.
AttemptsOfSizeUnbounded(top_fields, k, o) ==
    IF k = 1 THEN [i \in 1..Len(Take(top_fields, o.max_fields)) |-> <<top_fields[i]>>]
    ELSE Combinations(top_fields, k)

\* The field lists of size k that _discover_pattern_combinations runs Finder
\* on: the single fields of top_fields[:max_fields], and for a size of 2 or
\* more field_combinations[:max_combinations].
AttemptsOfSize(top_fields, k, o) ==
    IF k = 1 THEN [i \in 1..Len(Take(top_fields, o.max_fields)) |-> <<top_fields[i]>>]
    ELSE Take(Combinations(top_fields, k), o.max_combinations)

\* The attempts of the sizes 1..k, in the order they are made.
RECURSIVE AttemptsUpTo(_, _, _)
AttemptsUpTo(top_fields, k, o) ==
    IF k <= 0 THEN <<>>
    ELSE AttemptsUpTo(top_fields, k - 1, o) \o AttemptsOfSize(top_fields, k, o)

\* Every field list the search sets out to run Finder on: the single fields,
\* then combo_size in range(2, min(max_fields + 1, len(top_fields) + 1)).
Attempts(top_fields, o) ==
    AttemptsUpTo(top_fields, Min({o.max_fields, Len(top_fields)}), o)

\* The position of the first attempt whose Finder run raises, 0 if none does.
FirstRaising(attempts, raising) ==
    LET bad == {i \in 1..Len(attempts) : Elements(attempts[i]) \cap raising # {}}
    IN  IF bad = {} THEN 0 ELSE Min(bad)

RECURSIVE Concat(_)
Concat(ss) == IF ss = <<>> THEN <<>> ELSE Head(ss) \o Concat(Tail(ss))

\* A variant that records an attempt only when its run found a pattern.
DiscoverPatternCombinationsRecordingFinds(data, field_scores, o, raising) ==
    LET attempts == Attempts(TopFields(field_scores, o), o)
        stop     == FirstRaising(attempts, raising)
        runs     == IF stop = 0 THEN attempts ELSE Take(attempts, stop)
        returned == IF stop = 0 THEN attempts ELSE Take(attempts, stop - 1)
        found    == [i \in 1..Len(returned) |->
                        FinderRun(data, returned[i], FindOptionsOf(o), raising)]
        tried    == [i \in 1..Len(found) |->
                        [fields |-> returned[i], patterns_found |-> Len(found[i].patterns)]]
    IN  [raised |-> stop # 0,
         runs |-> runs,
         all_patterns |-> Concat([i \in 1..Len(found) |-> found[i].patterns]),
         combinations_tried |-> SelectSeq(tried, LAMBDA t : t.patterns_found > 0)]

\* Discovery._discover_pattern_combinations: nothing catches a Finder run
\* that raises, the search ends there and the error leaves the call.
DiscoverPatternCombinations(data, field_scores, o, raising) ==
    LET attempts == Attempts(TopFields(field_scores, o), o)
        stop     == FirstRaising(attempts, raising)
        runs     == IF stop = 0 THEN attempts ELSE Take(attempts, stop)
        returned == IF stop = 0 THEN attempts ELSE Take(attempts, stop - 1)
        found    == [i \in 1..Len(returned) |->
                        FinderRun(data, returned[i], FindOptionsOf(o), raising)]
    IN  [raised |-> stop # 0,
         runs |-> runs,
         all_patterns |-> Concat([i \in 1..Len(found) |-> found[i].patterns]),
         combinations_tried |->
             [i \in 1..Len(found) |->
                 [fields |-> returned[i], patterns_found |-> Len(found[i].patterns)]]]

\* seen_paths of _rank_and_deduplicate_patterns: one pattern a path, at the
\* place of the path's first occurrence, replaced by a later occurrence of a
\* higher percentage.
RECURSIVE SeenPaths(_)
SeenPaths(patterns) ==
    IF patterns = <<>> THEN <<>>
    ELSE LET seen == SeenPaths(SubSeq(patterns, 1, Len(patterns) - 1))
             p    == patterns[Len(patterns)]
             at   == {i \in 1..Len(seen) : seen[i].path = p.path}
         IN  IF at = {} THEN Append(seen, p)
             ELSE IF p.percentage > seen[Min(at)].percentage
             THEN [seen EXCEPT ![Min(at)] = p]
             ELSE seen

\* A variant that keeps the first occurrence of a path, whatever comes later.
RankFirstOccurrences(patterns) ==
    LET first == SelectSeq([i \in 1..Len(patterns) |-> <<i, patterns[i]>>],
                     LAMBDA e : \A j \in 1..(e[1] - 1) : patterns[j].path # e[2].path)
    IN  StableSort([i \in 1..Len(first) |-> first[i][2]], "percentage", TRUE)

\* Discovery._rank_and_deduplicate_patterns
RankAndDeduplicatePatterns(patterns) ==
    StableSort(SeenPaths(patterns), "percentage", TRUE)

\* Discovery._build_empty_discovery_result
BuildEmptyDiscoveryResult ==
    [status |-> "ok",
     top_patterns |-> <<>>,
     field_ranking |-> <<>>,
     combinations_tried |-> <<>>,
     statistics |-> [total_records |-> 0, fields_analyzed |-> 0,
                     combinations_tried |-> 0, patterns_discovered |-> 0,
                     best_concentration |-> 0],
     fields_analyzed |-> <<>>]

DiscoverInput(data, query, raising) ==
    [data |-> data, query |-> query, raising |-> raising]

\* A variant that leaves the records unfiltered.
DiscoverDataUnfiltered(in) == in.data

\* The records Discovery.execute analyses: filtered when a query is given.
DiscoverData(in) ==
    IF DOMAIN in.query # {} THEN FilterDataByQuery(in.data, in.query) ELSE in.data

\* The local variables of Discovery.execute when no Finder run was made.
NoDiscoverLocals ==
    [available_fields |-> <<>>, field_scores |-> <<>>, scoring_runs |-> <<>>,
     search |-> [raised |-> FALSE, runs |-> <<>>, all_patterns |-> <<>>,
                 combinations_tried |-> <<>>]]

\* The local variables of Discovery.execute past the no-data return, the
\* detected fields being iterated in the order `order`; scoring_runs and
\* search.runs are the field lists Finder was run on.
DiscoverLocals(in, o, order) ==
    LET data             == DiscoverData(in)
        available_fields == DetectCategoricalFields(data, order)
        field_scores     == ScoreFieldsByPotential(data, available_fields, o, in.raising)
    IN  [available_fields |-> available_fields,
         field_scores |-> field_scores,
         scoring_runs |-> [i \in 1..Len(available_fields) |-> <<available_fields[i]>>],
         search |-> DiscoverPatternCombinations(data, field_scores, o, in.raising)]

\* What leaves Discovery.execute when a Finder run of the search raised.
DiscoverRaised == [status |-> "FinderError"]

\* What Discovery.execute returns from the local variables l.
DiscoverOutput(in, l) ==
    LET top_patterns == RankAndDeduplicatePatterns(l.search.all_patterns)
        top          == Take(top_patterns, TopPatternsLimit)
    IN  [status |-> "ok",
         top_patterns |-> top,
         field_ranking |-> l.field_scores,
         combinations_tried |-> l.search.combinations_tried,
         statistics |->
             [total_records |-> Len(DiscoverData(in)),
              fields_analyzed |-> Len(l.available_fields),
              combinations_tried |-> Len(l.search.combinations_tried),
              patterns_discovered |-> Len(top),
              best_concentration |->
                  IF top_patterns # <<>>
                  THEN Max({top[i].percentage : i \in 1..Len(top)}) ELSE 0],
         fields_analyzed |-> l.available_fields]

\* A discover call issued with arguments drawn from the given sets.
DiscoverIssued(DataSet, QuerySet, RaisingSet, OptionSet) ==
    /\ op = "none"
    /\ input \in {DiscoverInput(data, query, raising) :
                     data \in DataSet, query \in QuerySet, raising \in RaisingSet}
    /\ options \in OptionSet
    /\ locals = NoDiscoverLocals
    /\ output = NoOutput
    /\ preprocessors = NoPreprocessors

\* Dataspot.discover: Discovery.execute runs on the arguments and returns or
\* raises.
Discover ==
    /\ op = "none"
    /\ op' = "discover"
    /\ UNCHANGED <<input, options, preprocessors>>
    /\ IF ~ValidateData(input.data)
       THEN /\ locals' = NoDiscoverLocals
            /\ output' = DataError
       ELSE IF DiscoverData(input) = <<>>
       THEN /\ locals' = NoDiscoverLocals
            /\ output' = BuildEmptyDiscoveryResult
       ELSE \E order \in Orders(AllFields(DiscoverData(input))) :
                /\ locals' = DiscoverLocals(input, options, order)
                /\ output' = IF locals'.search.raised THEN DiscoverRaised
                             ELSE DiscoverOutput(input, locals')

DiscoverRecords ==
    {Record3("U", "m", "x"), Record3("U", "m", "y"), Record3("U", "w", "x"),
     Record3("E", "m", "x"), Record3("E", "w", "y"), Record3("U", "m", "")}

DiscoverOption(fo, max_fields, max_combinations) ==
    [k \in DOMAIN fo \cup {"max_fields", "max_combinations"} |->
        IF k = "max_fields" THEN max_fields
        ELSE IF k = "max_combinations" THEN max_combinations
        ELSE fo[k]]

\* The budgets <<max_fields, max_combinations>> a discover call is tried with.
Budgets == {<<1, 1>>, <<2, 1>>, <<3, 1>>, <<3, 2>>, <<2, 3>>, <<3, 10>>}

DiscoverOptions ==
    {DiscoverOption([DefaultOptions EXCEPT !.min_percentage = Some(1000)], b[1], b[2]) :
        b \in Budgets}
    \cup {DiscoverOption([DefaultOptions EXCEPT !.min_percentage = Some(5000)], 3, 10),
          DiscoverOption([DefaultOptions EXCEPT !.max_percentage = Some(1000)], 2, 3)}

\* discover calls, with and without a field on which Finder raises.
InitDiscover ==
    DiscoverIssued(SeqsUpTo(DiscoverRecords, MaxDiscoverRecords),
                   {NoQuery, Query("c", {"U"}), Query("c", {"X"})},
                   {{}, {"d"}}, DiscoverOptions)

SpecDiscover == InitDiscover /\ [][Discover]_vars

-----------------------------------------------------------------------------
(* Discovery._detect_categorical_fields on its own, on record lists long   *)
(* enough to meet both branches of the cardinality test and the end of the *)
(* sample.  Field c has `nulls` missing values first and then cycles       *)
(* through `unique` values; field d changes its value after the record at  *)
(* position SampleSize; field e is carried by no record.                   *)

MaxDetectRecords == 10

\* The value of field c in record i of a column.
ColumnValue(i, nulls, unique, mixed) ==
    IF i <= nulls THEN ""
    ELSE IF mixed THEN (IF (i - nulls) % 2 = 1 THEN "1" ELSE IntOne)
    ELSE ToString(((i - nulls - 1) % unique) + 1)

DetectData(len, nulls, unique, mixed) ==
    [i \in 1..len |->
        Record3(ColumnValue(i, nulls, unique, mixed),
                IF i <= SampleSize THEN "m" ELSE "w", "")]

\* The lengths around the end of the sample.
LongLengths == {SampleSize - 1, SampleSize, SampleSize + 1, SampleSize + 2}

\* The numbers of distinct values long columns are drawn with.
LongUniques == {1, 2, 79, 80, 81, 94, 95, 96, SampleSize, SampleSize + 1}

InitDetect ==
    /\ op = "none"
    /\ \/ \E len \in 0..MaxDetectRecords, nulls \in 0..MaxDetectRecords,
             unique \in 1..MaxDetectRecords, mixed \in BOOLEAN :
              /\ nulls <= len
              /\ unique <= Max({1, len - nulls})
              /\ mixed => unique = 2
              /\ input = [data |-> DetectData(len, nulls, unique, mixed)]
       \/ \E len \in LongLengths, nulls \in {0, 1, 2}, unique \in LongUniques :
              input = [data |-> DetectData(len, nulls, unique, FALSE)]
    /\ options = DefaultOptions
    /\ locals = NoLocals
    /\ output = NoOutput
    /\ preprocessors = NoPreprocessors

\* Discovery._detect_categorical_fields runs on the records and returns.
DetectCall ==
    /\ op = "none"
    /\ op' = "detect"
    /\ \E order \in Orders(AllFields(input.data)) :
           output' = [status |-> "ok",
                      categorical_fields |-> DetectCategoricalFields(input.data, order)]
    /\ UNCHANGED <<input, options, locals, preprocessors>>

SpecDetect == InitDetect /\ [][DetectCall]_vars

-----------------------------------------------------------------------------
(* The combination search with its Finder runs finishing in any order.     *)
(* Each run reads the same records and extends all_patterns with what it   *)
(* found; _rank_and_deduplicate_patterns merges once every run is in.      *)
(* locals.pending holds the positions of the attempts still to finish.     *)

MaxMergeRecords == 3

\* The local variables of the search before its first Finder run, the
\* detected fields being iterated in the order `order`.
SearchLocals(in, o, order) ==
    LET field_scores == ScoreFieldsByPotential(in.data,
                            DetectCategoricalFields(in.data, order), o, in.raising)
        attempts     == Attempts(TopFields(field_scores, o), o)
    IN  [field_scores |-> field_scores,
         attempts |-> attempts,
         pending |-> 1..Len(attempts),
         all_patterns |-> <<>>]

MergeRecords ==
    {Record3("U", "w", "x"), Record3("E", "w", "y"), Record3("U", "m", "")}

MergeOptions ==
    {DiscoverOption([DefaultOptions EXCEPT !.min_percentage = Some(1000)], 2, 3),
     DiscoverOption([DefaultOptions EXCEPT !.min_percentage = Some(1000)], 3, 1),
     DiscoverOption([DefaultOptions EXCEPT !.limit = Some(1)], 2, 3)}

InitMerge ==
    /\ op = "none"
    /\ input \in {DiscoverInput(data, NoQuery, {}) :
                     data \in SeqsUpTo(MergeRecords, MaxMergeRecords) \ {<<>>}}
    /\ options \in MergeOptions
    /\ \E order \in Orders(AllFields(input.data)) :
           locals = SearchLocals(input, options, order)
    /\ output = NoOutput
    /\ preprocessors = NoPreprocessors

\* One Finder run of the search finishes and its patterns join all_patterns.
FinderRunFinishes ==
    /\ op \in {"none", "search"}
    /\ \E i \in locals.pending :
           locals' = [locals EXCEPT
               !.pending = @ \ {i},
               !.all_patterns = @ \o FinderRun(input.data, locals.attempts[i],
                                               FindOptionsOf(options),
                                               input.raising).patterns]
    /\ op' = "search"
    /\ UNCHANGED <<input, options, output, preprocessors>>

\* Every run is in: _rank_and_deduplicate_patterns merges.
MergeCall ==
    /\ op \in {"none", "search"}
    /\ locals.pending = {}
    /\ op' = "merged"
    /\ output' = [status |-> "ok",
                  top_patterns |-> RankAndDeduplicatePatterns(locals.all_patterns)]
    /\ UNCHANGED <<input, options, locals, preprocessors>>

NextMerge == FinderRunFinishes \/ MergeCall

SpecMerge == InitMerge /\ [][NextMerge]_vars

-----------------------------------------------------------------------------
(* The ranking of Discovery.execute on its own: the merged pattern list is *)
(* drawn directly, long enough to hold more than TopPatternsLimit paths    *)
(* and with paths that occur several times with different percentages.    *)

MaxPatterns == 24

Digits == <<"0", "1", "2", "3", "4", "5", "6", "7", "8", "9">>

\* The path c=<n> of a single-field pattern, n written in two digits.
NumberedPath(n) == <<"c", "=", Digits[(n \div 10) + 1], Digits[(n % 10) + 1]>>

\* A list of `len` patterns over `paths` distinct paths met in turn, the
\* i-th pattern counting (i * step) % total records out of total.
PatternList(len, paths, step, total) ==
    [i \in 1..len |-> Pattern(NumberedPath((i - 1) % paths), (i * step) % total, total, 1)]

RankInput(all_patterns) == [all_patterns |-> all_patterns]

\* The ranking issued on a drawn pattern list.
InitRank ==
    /\ op = "none"
    /\ \E len \in 0..MaxPatterns, paths \in {1, 3, 20, 21, 22},
          step \in {1, 3, 7}, total \in {2, 5, 11, 23} :
           input = RankInput(PatternList(len, paths, step, total))
    /\ options = DefaultOptions
    /\ locals = NoLocals
    /\ output = NoOutput
    /\ preprocessors = NoPreprocessors

\* top_patterns of Discovery.execute: the ranked patterns, cut at 20.
RankCall ==
    /\ op = "none"
    /\ op' = "rank"
    /\ output' = [status |-> "ok",
                  top_patterns |-> Take(RankAndDeduplicatePatterns(input.all_patterns),
                                        TopPatternsLimit)]
    /\ UNCHANGED <<input, options, locals, preprocessors>>

SpecRank == InitRank /\ [][RankCall]_vars

-----------------------------------------------------------------------------
(* Tree.  The view is rebuilt from the filtered pattern list: a node is a  *)
(* pattern of the list, its children are the patterns of the list one      *)
(* segment longer than it, the root's children the patterns of depth 1.    *)
(* Node identifiers are not modelled.                                      *)

MaxTreeRecords == 3

DefaultTop == 5

TreeInput(data, fields, query) == [data |-> data, fields |-> fields, query |-> query]

\* The patterns of ps that are children of the node at `parent` (the root
\* when depth is 0).
ChildPatterns(ps, parent, depth) ==
    SelectSeq(ps, LAMBDA q :
        /\ q.depth = depth + 1
        /\ depth > 0 =>
               /\ Len(q.path) > Len(parent) + Len(Separator)
               /\ SubSeq(q.path, 1, Len(parent) + Len(Separator)) = parent \o Separator)

\* The label of the node of pattern q under `parent`: its last segment.
NodeName(q, parent, depth) ==
    IF depth = 0 THEN q.path
    ELSE SubSeq(q.path, Len(parent) + Len(Separator) + 1, Len(q.path))

\* A variant that keeps the first `top` children in the order of the list.
RECURSIVE ViewChildrenUnsorted(_, _, _, _)
ViewChildrenUnsorted(ps, parent, depth, top) ==
    LET kept == Take(ChildPatterns(ps, parent, depth), top)
    IN  [i \in 1..Len(kept) |->
            [name |-> NodeName(kept[i], parent, depth),
             value |-> kept[i].count,
             percentage |-> kept[i].percentage,
             children |-> ViewChildrenUnsorted(ps, kept[i].path, depth + 1, top)]]

\* TreeBuilder: the children of a node of the view, the `top` ones of the
\* highest percentage, each with its own children.
RECURSIVE ViewChildren(_, _, _, _)
ViewChildren(ps, parent, depth, top) ==
    LET kept == Take(StableSort(ChildPatterns(ps, parent, depth), "percentage", TRUE), top)
    IN  [i \in 1..Len(kept) |->
            [name |-> NodeName(kept[i], parent, depth),
             value |-> kept[i].count,
             percentage |-> kept[i].percentage,
             children |-> ViewChildren(ps, kept[i].path, depth + 1, top)]]

\* A variant whose root reports the size of the input.
TreeRootOfInput(in, filtered_data) ==
    [name |-> <<"r", "o", "o", "t">>, value |-> Len(in.data), percentage |-> 10000, node |-> 0]

\* TreeBuilder: the root of a view built from at least one record.
TreeRoot(in, filtered_data) ==
    [name |-> <<"r", "o", "o", "t">>, value |-> Len(filtered_data), percentage |-> 10000,
     node |-> 0]

\* The root Tree.execute returns when the query leaves no record.
EmptyTreeRoot == [name |-> <<"r", "o", "o", "t">>, value |-> 0, percentage |-> 0, node |-> 0]

\* The patterns Tree.execute rebuilds the view from, on an analyzer whose
\* preprocessors are `registry`.
TreePatterns(in, o, registry) ==
    LET filtered_data == FilterDataByQuery(in.data, in.query)
        all_patterns  == FromTree(BuildTreeWith(registry, filtered_data, in.fields),
                                  Len(filtered_data))
    IN  ApplyAll(all_patterns, FindOptionsOf(o))

TreeOutput(root, children, in, o, filtered_records, patterns_found) ==
    [status |-> "ok",
     name |-> root.name,
     children |-> children,
     value |-> root.value,
     percentage |-> root.percentage,
     node |-> root.node,
     top |-> o.top,
     statistics |-> [total_records |-> Len(in.data),
                     filtered_records |-> filtered_records,
                     patterns_found |-> patterns_found,
                     fields_analyzed |-> Len(in.fields)],
     fields_analyzed |-> in.fields]

\* Tree.execute
TreeExecute(in, o, registry) ==
    LET filtered_data == FilterDataByQuery(in.data, in.query) IN
    IF ~ValidateData(in.data) THEN DataError
    ELSE IF filtered_data = <<>>
    THEN TreeOutput(EmptyTreeRoot, <<>>, in, o, 0, 0)
    ELSE LET filtered_patterns == TreePatterns(in, o, registry)
         IN  TreeOutput(TreeRoot(in, filtered_data),
                        ViewChildren(filtered_patterns, <<>>, 0, o.top),
                        in, o, Len(filtered_data), Len(filtered_patterns))

\* The local variables of Tree.execute when it returns.
TreeLocals(in, o, registry) ==
    LET filtered_data == FilterDataByQuery(in.data, in.query) IN
    IF ~ValidateData(in.data) \/ filtered_data = <<>>
    THEN [filtered_data |-> <<>>, filtered_patterns |-> <<>>]
    ELSE [filtered_data |-> filtered_data,
          filtered_patterns |-> TreePatterns(in, o, registry)]

TreeOption(fo, top) ==
    [k \in DOMAIN fo \cup {"top"} |-> IF k = "top" THEN top ELSE fo[k]]

\* A tree call issued with arguments drawn from the given sets.
TreeIssued(DataSet, FieldSet, QuerySet, OptionSet) ==
    /\ op = "none"
    /\ input \in {TreeInput(data, fields, query) :
                     data \in DataSet, fields \in FieldSet, query \in QuerySet}
    /\ options \in OptionSet
    /\ locals = NoLocals
    /\ output = NoOutput
    /\ preprocessors = NoPreprocessors

\* Dataspot.tree: Tree.execute runs on the arguments and returns.
Tree ==
    /\ op = "none"
    /\ op' = "tree"
    /\ locals' = TreeLocals(input, options, preprocessors)
    /\ output' = TreeExecute(input, options, preprocessors)
    /\ UNCHANGED <<input, options, preprocessors>>

TreeOptions ==
    {TreeOption(fo, top) :
        fo \in {DefaultOptions,
                [DefaultOptions EXCEPT !.max_percentage = Some(5000)],
                [DefaultOptions EXCEPT !.min_depth = Some(2)],
                [DefaultOptions EXCEPT !.min_count = Some(2)]},
        top \in {1, 2, DefaultTop}}

\* tree calls.
InitTree ==
    TreeIssued(SeqsUpTo(ValidRecords, MaxTreeRecords), {<<"c">>, <<"c", "d">>, <<"d", "c">>},
               {NoQuery, Query("c", {"U"}), Query("c", {"X"})}, TreeOptions)

SpecTree == InitTree /\ [][Tree]_vars

-----------------------------------------------------------------------------
(* Dataspot with registered preprocessors.  Dataspot hands its registry to *)
(* the analyzer it creates for a call (analyzer.preprocessors =            *)
(* self._base.preprocessors); the analyzer's execute then runs.  A Finder  *)
(* an analyzer creates for itself starts with the registry of a fresh      *)
(* analyzer unless the analyzer assigns its own.  `input` is the data set, *)
(* field list and query the caller analyses, `options` the remaining       *)
(* arguments of the last call, `locals` the registry of the Finder runs of *)
(* the call.                                                               *)

MaxPreRecords == 2

TopPatternsShown == 5

\* Finder.execute on a Finder whose preprocessors are `registry`: the query
\* filters the raw records, the tree groups the preprocessed values.
ExecuteWith(in, o, registry) ==
    IF ~ValidateData(in.data) THEN DataError
    ELSE IF in.fields = <<>> THEN EmptyFieldsResult(in)
    ELSE IF FilteredData(in) = <<>> THEN NoDataResult(in)
    ELSE FoundResult(FindInput(PreprocessData(registry, FilteredData(in)),
                               in.fields, NoQuery), o)

\* Compare._get_patterns on a Compare whose preprocessors are `registry`.
GetPatternsWith(data, fields, o, registry) ==
    LET ps == ExecuteWith(FindInput(data, fields, NoQuery), FindOptionsOf(o),
                          registry).patterns
    IN  [path \in {ps[i].path : i \in 1..Len(ps)} |->
            LET p == CHOOSE q \in Elements(ps) : q.path = path
            IN  [count |-> p.count, percentage |-> p.percentage, depth |-> p.depth]]

\* Analyzer._calculate_statistics
CalculateStatistics(data, query) ==
    LET total_records    == Len(data)
        filtered_records == IF DOMAIN query # {}
                            THEN Len(FilterDataByQuery(data, query))
                            ELSE total_records
    IN  [total_records |-> total_records,
         filtered_records |-> filtered_records,
         filter_ratio |-> Percentage(filtered_records, total_records)]

\* Analyzer.execute, the Finder it creates having the preprocessors
\* `finder_registry`.  Insights and field_stats are left out.
AnalyzerExecute(in, o, finder_registry) ==
    IF ~ValidateData(in.data) THEN DataError
    ELSE LET patterns == ExecuteWith(in, FindOptionsOf(o), finder_registry).patterns
             base     == CalculateStatistics(in.data, in.query)
         IN  [status |-> "ok",
              patterns |-> patterns,
              statistics |->
                  [total_records |-> base.total_records,
                   filtered_records |-> base.filtered_records,
                   filter_ratio |-> base.filter_ratio,
                   patterns_found |-> Len(patterns),
                   max_concentration |->
                       IF patterns # <<>>
                       THEN Max({patterns[i].percentage : i \in 1..Len(patterns)})
                       ELSE 0],
              top_patterns |-> Take(patterns, TopPatternsShown),
              fields_analyzed |-> in.fields]

\* The registry of the Finder runs of a call.
FinderRegistry(registry) == [finder_preprocessors |-> registry]

\* The <<field_name, preprocessor>> pairs add_preprocessor is called with.
Registrations == {<<"c", "lower">>, <<"c", "star">>, <<"d", "star">>}

\* Dataspot.add_preprocessor
AddPreprocessor ==
    \E registration \in Registrations :
      LET field_name   == registration[1]
          preprocessor == registration[2]
      IN
        /\ op' = "add_preprocessor"
        /\ options' = [field_name |-> field_name, preprocessor |-> preprocessor]
        /\ preprocessors' = AddPreprocessorTo(preprocessors, field_name, preprocessor)
        /\ locals' = FinderRegistry(NoPreprocessors)
        /\ output' = NoOutput
        /\ UNCHANGED input

\* Dataspot.find: the Finder is given the registry.
DataspotFind ==
    /\ op' = "find"
    /\ options' = DefaultOptions
    /\ locals' = FinderRegistry(preprocessors)
    /\ output' = ExecuteWith(input, options', locals'.finder_preprocessors)
    /\ UNCHANGED <<input, preprocessors>>

\* Dataspot.analyze: the Analyzer is given the registry; the Finder that
\* Analyzer.execute creates is a fresh one.
DataspotAnalyze ==
    /\ op' = "analyze"
    /\ options' = DefaultOptions
    /\ locals' = FinderRegistry(NoPreprocessors)
    /\ output' = AnalyzerExecute(input, options', locals'.finder_preprocessors)
    /\ UNCHANGED <<input, preprocessors>>

\* Dataspot.tree: the Tree is given the registry and builds the tree itself.
DataspotTree ==
    /\ op' = "tree"
    /\ options' = TreeOption(DefaultOptions, DefaultTop)
    /\ locals' = FinderRegistry(preprocessors)
    /\ output' = TreeExecute(input, options', locals'.finder_preprocessors)
    /\ UNCHANGED <<input, preprocessors>>

\* Dataspot.discover: the Discovery is given the registry; the Finders that
\* _score_fields_by_potential and _discover_pattern_combinations create are
\* fresh ones.
DataspotDiscover ==
    /\ op' = "discover"
    /\ options' = DiscoverOption([DefaultOptions EXCEPT !.min_percentage = Some(1000)],
                                 3, 10)
    /\ locals' = FinderRegistry(NoPreprocessors)
    /\ UNCHANGED <<input, preprocessors>>
    /\ LET in == DiscoverInput(input.data, input.query, {}) IN
       IF ~ValidateData(in.data) THEN output' = DataError
       ELSE IF DiscoverData(in) = <<>> THEN output' = BuildEmptyDiscoveryResult
       ELSE \E order \in Orders(AllFields(DiscoverData(in))) :
                output' = DiscoverOutput(in, DiscoverLocals(in, options', order))

\* Dataspot.compare: the Compare is given the registry and hands it to the
\* Finder of _get_patterns.
DataspotCompare ==
    /\ op' = "compare"
    /\ options' = CompareOption(DefaultOptions, 15, FALSE)
    /\ locals' = FinderRegistry(preprocessors)
    /\ UNCHANGED <<input, preprocessors>>
    /\ IF ValidateData(input.data) /\ ValidateData(input.baseline_data)
       THEN LET in == CompareInput(input.data, input.baseline_data, input.fields,
                                   input.query)
                l  == [current_patterns |->
                           GetPatternsWith(CurrentData(in), in.fields, options',
                                           locals'.finder_preprocessors),
                       baseline_patterns |->
                           GetPatternsWith(BaselineData(in), in.fields, options',
                                           locals'.finder_preprocessors)]
            IN  \E order \in Orders(DOMAIN l.current_patterns
                                      \cup DOMAIN l.baseline_patterns) :
                    output' = CompareOutput(in, options', l, order)
       ELSE output' = DataError

PreRecords ==
    {Record3("U", "m", ""), Record3("u", "m", ""), Record3("E", "w", "")}

\* A fresh Dataspot and the data a caller analyses with it.
InitPre ==
    /\ op = "none"
    /\ input \in {[data |-> data, baseline_data |-> baseline_data,
                   fields |-> fields, query |-> query] :
                     data \in SeqsUpTo(PreRecords, MaxPreRecords),
                     baseline_data \in {<<>>, <<Record3("U", "m", "")>>},
                     fields \in {<<"c">>, <<"d">>},
                     query \in {NoQuery, Query("c", {"U", "u"})}}
    /\ options = DefaultOptions
    /\ locals = FinderRegistry(NoPreprocessors)
    /\ output = NoOutput
    /\ preprocessors = NoPreprocessors

NextPre ==
    \/ AddPreprocessor
    \/ DataspotFind
    \/ DataspotAnalyze
    \/ DataspotTree
    \/ DataspotDiscover
    \/ DataspotCompare

SpecPre == InitPre /\ [][NextPre]_vars

-----------------------------------------------------------------------------
(* Properties of find calls.                                               *)

Counts(ps) == [i \in 1..Len(ps) |-> ps[i].count]

\* q is a child of p: its path extends p's by exactly one segment.
IsChild(q, p) ==
    /\ q.depth = p.depth + 1
    /\ Len(q.path) > Len(p.path) + Len(Separator)
    /\ SubSeq(q.path, 1, Len(p.path) + Len(Separator)) = p.path \o Separator

ChildrenOf(ps, p) == SelectSeq(ps, LAMBDA q : IsChild(q, p))

\* C1: in the patterns that Build -> Extract produces, before any pattern
\* filter, the counts of the depth-1 patterns sum to the number of records
\* left by the query, and a pattern with children counts as many records
\* as its direct children together.
C1_CountsAddUp ==
    (op = "find" /\ locals.built) =>
        LET ps == locals.patterns IN
        /\ SumSeq(Counts(SelectSeq(ps, LAMBDA p : p.depth = 1)))
               = Len(FilterDataByQuery(input.data, input.query))
        /\ \A i \in 1..Len(ps) :
               ChildrenOf(ps, ps[i]) # <<>> =>
                   ps[i].count = SumSeq(Counts(ChildrenOf(ps, ps[i])))

C1_Witness ==
    /\ op = "find" /\ locals.built
    /\ Len(locals.filtered_data) < Len(input.data)
    /\ \E i \in 1..Len(locals.patterns) :
           Len(ChildrenOf(locals.patterns, locals.patterns[i])) >= 2

\* C2: every returned pattern's percentage lies in [0, 100] and is
\* count / total * 100 rounded to 2 decimals (the nearest hundredth), total
\* being the number of records left by the query; with no record left the
\* call still returns and no pattern has a percentage other than 0.
C2_PercentageOfFilteredTotal ==
    (op = "find" /\ ValidateData(input.data)) =>
        LET n == Len(FilterDataByQuery(input.data, input.query)) IN
        /\ output.status = "ok"
        /\ \A i \in 1..Len(output.patterns) :
               LET p == output.patterns[i]
                   d == p.percentage * n - p.count * 10000
               IN  /\ p.percentage \in 0..10000
                   /\ n = 0 => p.percentage = 0
                   /\ 2 * d <= n /\ -2 * d <= n

C2_Witness ==
    /\ op = "find" /\ output.status = "ok"
    /\ \E i \in 1..Len(output.patterns) : output.patterns[i].percentage = 3333
    /\ \E i \in 1..Len(output.patterns) : output.patterns[i].percentage = 6667

\* C3: in every return path of a find call on a non-empty field list, the
\* early return taken when the query matches no record included,
\* total_records is the number of records left by the query, never the size
\* of the input.
C3_TotalIsFilteredCount ==
    (op = "find" /\ output.status = "ok" /\ input.fields # <<>>) =>
        output.total_records = Len(FilterDataByQuery(input.data, input.query))

\* C4: a find call on an empty record list returns total_records = 0,
\* patterns = [] and total_patterns = 0 and does not raise, whatever the
\* field list and the options.
C4_EmptyDataGivesEmptyResult ==
    (op = "find" /\ input.data = <<>>) =>
        output = [status |-> "ok", patterns |-> <<>>, total_records |-> 0,
                  total_patterns |-> 0]

C4_Witness ==
    /\ op = "find" /\ input.data = <<>> /\ output.status = "ok"
    /\ input.fields = <<"c", "d">>
    /\ options # DefaultOptions

SatisfiesSetPredicates(p, o) ==
    /\ (o.min_percentage = {} \/ \E v \in o.min_percentage : p.percentage >= v)
    /\ (o.max_percentage = {} \/ \E v \in o.max_percentage : p.percentage <= v)
    /\ (o.min_count = {} \/ \E v \in o.min_count : p.count >= v)
    /\ (o.max_count = {} \/ \E v \in o.max_count : p.count <= v)
    /\ (o.min_depth = {} \/ \E v \in o.min_depth : p.depth >= v)
    /\ (o.max_depth = {} \/ \E v \in o.max_depth : p.depth <= v)
    /\ (o.contains = {} \/ \E v \in o.contains : Contains(p.path, v))
    /\ (o.exclude = {} \/ \E xs \in o.exclude : \A x \in xs : ~Contains(p.path, x))
    /\ (o.regex = {} \/ \E re \in o.regex : Search(re, p.path))

NoneSet(o) ==
    \A k \in {"min_percentage", "max_percentage", "min_count", "max_count",
              "min_depth", "max_depth", "contains", "exclude", "regex"} :
        o[k] = {}

\* C6: with no limit, the patterns a find call returns are exactly the
\* extracted patterns that satisfy every predicate that is set; with no
\* predicate set nothing is excluded; a conflicting range gives an empty
\* list, not an error.
C6_FilterIsConjunction ==
    (op = "find" /\ locals.built /\ options.limit = {}) =>
        /\ output.status = "ok"
        /\ Elements(output.patterns)
               = {p \in Elements(locals.patterns) : SatisfiesSetPredicates(p, options)}
        /\ Len(output.patterns) = Cardinality(Elements(output.patterns))
        /\ NoneSet(options) => Len(output.patterns) = Len(locals.patterns)
        /\ (options.min_percentage # {} /\ options.max_percentage # {}
              /\ Val(options.min_percentage) > Val(options.max_percentage))
               => output.patterns = <<>>

C6_Witness ==
    /\ op = "find" /\ locals.built /\ options.limit = {}
    /\ options.min_count # {} /\ options.contains # {} /\ options.max_depth # {}
    /\ options.min_percentage = {}
    /\ output.patterns # <<>>
    /\ Len(output.patterns) < Len(locals.patterns)

\* C7: with sort_by one of percentage, count, depth, the returned patterns
\* are non-increasing in that field when reverse is true or not given, and
\* non-decreasing when reverse is false.
C7_SortedBySortField ==
    (op = "find" /\ output.status = "ok" /\ options.sort_by # {}
       /\ Val(options.sort_by) \in SortFields) =>
        LET ps  == output.patterns
            key(p) == KeyOf(p, Val(options.sort_by))
        IN  \A i \in 1..Len(ps), j \in 1..Len(ps) :
                i < j => IF options.reverse = {FALSE}
                         THEN key(ps[i]) <= key(ps[j])
                         ELSE key(ps[i]) >= key(ps[j])

C7_Witness ==
    /\ op = "find" /\ options.sort_by = {"count"} /\ options.reverse = {FALSE}
    /\ options.limit = {}
    /\ Len(output.patterns) >= 3
    /\ output.patterns[1].count < output.patterns[Len(output.patterns)].count
    /\ output.patterns # FilteredPatterns(input, [options EXCEPT !.sort_by = {}])

-----------------------------------------------------------------------------
(* Properties of compare calls.                                            *)

OnlyIn(a, b) == DOMAIN a \ DOMAIN b

ChangeOf(path) == CHOOSE ch \in Elements(output.changes) : ch.path = path

\* C9: a path that only the baseline pattern set holds is reported with
\* is_disappeared = true, is_new = false and current_count = 0; a path that
\* only the current pattern set holds with is_new = true, is_disappeared =
\* false, baseline_count = 0 and status NEW.
C9_OneSidedPaths ==
    (op = "compare" /\ output.status = "ok") =>
        /\ \A path \in OnlyIn(locals.baseline_patterns, locals.current_patterns) :
               /\ \E ch \in Elements(output.changes) : ch.path = path
               /\ ChangeOf(path).is_disappeared
               /\ ~ChangeOf(path).is_new
               /\ ChangeOf(path).current_count = 0
        /\ \A path \in OnlyIn(locals.current_patterns, locals.baseline_patterns) :
               /\ \E ch \in Elements(output.changes) : ch.path = path
               /\ ChangeOf(path).is_new
               /\ ~ChangeOf(path).is_disappeared
               /\ ChangeOf(path).baseline_count = 0
               /\ ChangeOf(path).status = "NEW"

C9_Witness ==
    /\ op = "compare" /\ output.status = "ok"
    /\ OnlyIn(locals.baseline_patterns, locals.current_patterns) # {}
    /\ OnlyIn(locals.current_patterns, locals.baseline_patterns) # {}
    /\ Len(output.changes) = 2

AllStableAndInsignificant ==
    /\ \A ch \in Elements(output.changes) :
           ch.status = "STABLE" /\ ~ch.is_significant
    /\ output.statistics.significant_changes = 0

\* C10 as stated: with identical current and baseline datasets, for every
\* change_threshold >= 0, every change is STABLE and not significant, and
\* statistics.significant_changes = 0.
C10_IdenticalAreInsignificant ==
    (op = "compare" /\ output.status = "ok"
       /\ input.current_data = input.baseline_data /\ options.change_threshold >= 0)
        => AllStableAndInsignificant

\* C10 amended: with identical current and baseline datasets, for every
\* change_threshold > 0, every change is STABLE and not significant, and
\* statistics.significant_changes = 0.
C10_IdenticalAreInsignificantAboveZero ==
    (op = "compare" /\ output.status = "ok"
       /\ input.current_data = input.baseline_data /\ options.change_threshold > 0)
        => AllStableAndInsignificant

C10_Witness ==
    /\ op = "compare" /\ output.status = "ok"
    /\ input.current_data = input.baseline_data
    /\ options.change_threshold = 15
    /\ DOMAIN input.query # {}
    /\ Len(output.changes) >= 2
    /\ output.stable_patterns = output.changes

-----------------------------------------------------------------------------
(* Properties of _compare_patterns.                                        *)

\* The status the ladder of C11 gives to the counts c (current) and b
\* (baseline), p being (c - b) / b * 100.
LadderStatus(c, b) ==
    LET d == (c - b) * 100 IN
    IF b = 0 THEN (IF c > 0 THEN "NEW" ELSE "STABLE")
    ELSE CASE d >= 200 * b -> "CRITICAL_INCREASE"
           [] d < 200 * b /\ d >= 100 * b -> "SIGNIFICANT_INCREASE"
           [] d < 100 * b /\ d >= 50 * b -> "INCREASE"
           [] d < 50 * b /\ d >= 15 * b -> "SLIGHT_INCREASE"
           [] d < 15 * b /\ d >= -15 * b -> "STABLE"
           [] d < -15 * b /\ d >= -50 * b -> "SLIGHT_DECREASE"
           [] d < -50 * b /\ d >= -80 * b -> "DECREASE"
           [] d < -80 * b /\ d >= -100 * b -> "CRITICAL_DECREASE"
           [] d < -100 * b -> "DISAPPEARED"

\* C11: every change's status is the first matching rung of the descending
\* ladder on p = (current_count - baseline_count) / baseline_count * 100
\* (infinite when the baseline count is 0 and the current count is not):
\* infinite NEW, >= 200 CRITICAL_INCREASE, >= 100 SIGNIFICANT_INCREASE,
\* >= 50 INCREASE, >= 15 SLIGHT_INCREASE, >= -15 STABLE, >= -50
\* SLIGHT_DECREASE, >= -80 DECREASE, >= -100 CRITICAL_DECREASE, otherwise
\* DISAPPEARED.
C11_StatusFollowsLadder ==
    (op = "compare_patterns") =>
        \A ch \in Elements(output.changes) :
            /\ ch.status = LadderStatus(ch.current_count, ch.baseline_count)
            /\ ch.count_change_percentage.inf
                   <=> (ch.baseline_count = 0 /\ ch.current_count > 0)
            /\ ~ch.count_change_percentage.inf =>
                   /\ ch.baseline_count > 0
                   /\ ch.count_change_percentage.num * ch.baseline_count
                          = (ch.current_count - ch.baseline_count) * 100
                              * ch.count_change_percentage.den

C11_Witness ==
    /\ op = "compare_patterns"
    /\ \E ch \in Elements(output.changes) :
           /\ ch.status = "SLIGHT_INCREASE"
           /\ ch.current_count = 23 /\ ch.baseline_count = 20
    /\ \E ch \in Elements(output.changes) : ch.status = "NEW"

\* C12: a change is significant exactly when |relative_change| >=
\* change_threshold if its baseline count is greater than 0, and exactly
\* when current_count > 5 if its baseline count is 0, whatever the
\* threshold.
C12_SignificanceRule ==
    (op = "compare_patterns") =>
        \A ch \in Elements(output.changes) :
            ch.is_significant <=>
                IF ch.baseline_count > 0
                THEN Abs(ch.current_count - ch.baseline_count) * 100
                         >= options.change_threshold * ch.baseline_count
                ELSE ch.current_count > 5

C12_Witness ==
    /\ op = "compare_patterns" /\ options.change_threshold = 0
    /\ \E ch \in Elements(output.changes) :
           ch.baseline_count = 0 /\ ch.current_count = 5 /\ ~ch.is_significant
    /\ \E ch \in Elements(output.changes) :
           ch.baseline_count = 1 /\ ch.current_count = 2 /\ ch.is_significant

-----------------------------------------------------------------------------
(* Properties of discover calls.                                           *)

\* The number of field lists of size k the combination search ran Finder on.
RunsOfSize(k) == Len(SelectSeq(locals.search.runs, LAMBDA fields : Len(fields) = k))

C14_TotalWithinBudget ==
    (op = "discover" /\ output.status = "ok") =>
        Len(output.combinations_tried) <= options.max_combinations

\* C16: when Finder raises on a single field, the discover call still
\* returns a result, and the field is in field_ranking with score 0,
\* whether the field is met during field scoring or during the combination
\* search.
C16_FieldFailureNeverAborts ==
    (op = "discover" /\ ValidateData(input.data)) =>
        /\ output.status = "ok"
        /\ \A f \in input.raising \cap Elements(locals.available_fields) :
               \E i \in 1..Len(output.field_ranking) :
                   output.field_ranking[i] = [field |-> f, score |-> 0]

\* C20: when the query leaves no record, discover returns, without raising
\* and without a Finder run, a result whose top_patterns, field_ranking,
\* combinations_tried and fields_analyzed are empty and whose statistics
\* are all 0.
C20_NoDataGivesEmptyDiscovery ==
    (op = "discover" /\ FilterDataByQuery(input.data, input.query) = <<>>) =>
        /\ output = [status |-> "ok", top_patterns |-> <<>>, field_ranking |-> <<>>,
                     combinations_tried |-> <<>>, fields_analyzed |-> <<>>,
                     statistics |-> [total_records |-> 0, fields_analyzed |-> 0,
                                     combinations_tried |-> 0,
                                     patterns_discovered |-> 0,
                                     best_concentration |-> 0]]
        /\ locals.scoring_runs = <<>>
        /\ locals.search.runs = <<>>

C20_Witness ==
    /\ op = "discover" /\ output.status = "ok"
    /\ Len(input.data) = MaxDiscoverRecords
    /\ Cardinality(AllFields(input.data)) = 3
    /\ DOMAIN input.query # {}
    /\ input.raising # {}
    /\ output.statistics.total_records = 0

\* C15: top_patterns holds at most 20 patterns and no path twice, is in
\* non-increasing order of percentage, holds for each of its paths the
\* occurrence of the highest percentage among the occurrences found, and
\* leaves out no pattern of a higher percentage than one it keeps.
C15_TopPatternsRanked ==
    (op = "rank") =>
        LET top == output.top_patterns
            all == Elements(input.all_patterns)
        IN  /\ Len(top) <= 20
            /\ \A i, j \in 1..Len(top) : i < j =>
                   /\ top[i].path # top[j].path
                   /\ top[i].percentage >= top[j].percentage
            /\ \A i \in 1..Len(top) :
                   /\ top[i] \in all
                   /\ \A p \in all : p.path = top[i].path =>
                          p.percentage <= top[i].percentage
            /\ \A p \in all :
                   (\A i \in 1..Len(top) : top[i].path # p.path) =>
                       \A i \in 1..Len(top) : p.percentage <= top[i].percentage
            /\ Cardinality({p.path : p \in all}) <= 20 =>
                   Len(top) = Cardinality({p.path : p \in all})

C15_Witness ==
    /\ op = "rank"
    /\ Len(output.top_patterns) = 20
    /\ Cardinality({p.path : p \in Elements(input.all_patterns)}) = 22
    /\ Len(input.all_patterns) = MaxPatterns
    /\ output.top_patterns[1].percentage > output.top_patterns[20].percentage
    /\ \E i, j \in 1..Len(input.all_patterns) :
           /\ i < j
           /\ input.all_patterns[i].path = input.all_patterns[j].path
           /\ input.all_patterns[i].percentage < input.all_patterns[j].percentage
           /\ input.all_patterns[j] \in Elements(output.top_patterns)

-----------------------------------------------------------------------------
(* Properties of tree calls.                                               *)

\* The patterns of the filtered list that are children of the pattern at
\* `parent`, or of the root when depth is 0.
ChildrenInList(parent, depth) ==
    {q \in Elements(locals.filtered_patterns) :
        IF depth = 0 THEN q.depth = 1
        ELSE IsChild(q, [path |-> parent, depth |-> depth])}

NodePath(node, parent, depth) ==
    IF depth = 0 THEN node.name ELSE parent \o Separator \o node.name

\* The children of one node of the view are at most `top`, each is a child
\* pattern of the list, no child pattern left out has a higher percentage
\* than one that is kept, and the same holds below each of them.
RECURSIVE TopChildrenKept(_, _, _)
TopChildrenKept(children, parent, depth) ==
    LET paths == {NodePath(children[i], parent, depth) : i \in 1..Len(children)} IN
    /\ Len(children) <= options.top
    /\ Cardinality(paths) = Len(children)
    /\ \A i \in 1..Len(children) :
           /\ \E q \in ChildrenInList(parent, depth) :
                  /\ q.path = NodePath(children[i], parent, depth)
                  /\ q.count = children[i].value
                  /\ q.percentage = children[i].percentage
           /\ TopChildrenKept(children[i].children,
                              NodePath(children[i], parent, depth), depth + 1)
    /\ \A q \in ChildrenInList(parent, depth) :
           q.path \notin paths =>
               \A i \in 1..Len(children) : q.percentage <= children[i].percentage

\* C18: in every tree result the root and every node have at most `top`
\* children, and the children kept under a parent are those of the highest
\* percentage among the parent's children in the filtered pattern list.
C18_TopChildrenPerLevel ==
    (op = "tree" /\ output.status = "ok") =>
        TopChildrenKept(output.children, <<>>, 0)

C18_Witness ==
    /\ op = "tree" /\ output.status = "ok" /\ options.top = 1
    /\ Len(output.children) = 1
    /\ Len(output.children[1].children) = 1
    /\ Cardinality(ChildrenInList(<<>>, 0)) = 2
    /\ output.children[1].percentage > 5000
    /\ locals.filtered_patterns[1].percentage < 5000
    /\ Cardinality(ChildrenInList(output.children[1].name, 1)) = 2

\* C19 as stated: the root of every tree result reports value = the number
\* of records left by the query and percentage = 100.0.
C19_RootIsWholeAlways ==
    (op = "tree" /\ output.status = "ok") =>
        /\ output.value = Len(FilterDataByQuery(input.data, input.query))
        /\ output.percentage = 10000

\* C19 amended: the root of every tree result reports value = the number
\* of records left by the query, whatever the pattern filters leave, and
\* percentage = 100.0 when at least one record is left, 0.0 when none is.
C19_RootIsWholeUnlessEmpty ==
    (op = "tree" /\ output.status = "ok") =>
        LET n == Len(FilterDataByQuery(input.data, input.query)) IN
        /\ output.value = n
        /\ output.percentage = IF n > 0 THEN 10000 ELSE 0

C19_Witness ==
    /\ op = "tree" /\ output.status = "ok"
    /\ DOMAIN input.query # {}
    /\ output.value > 0 /\ output.value < Len(input.data)
    /\ output.percentage = 10000
    /\ locals.filtered_patterns = <<>>
    /\ output.children = <<>>


-----------------------------------------------------------------------------
(* Properties of a Dataspot with registered preprocessors.                 *)

RECURSIVE NodeNames(_)
NodeNames(children) ==
    UNION {{children[i].name} \cup NodeNames(children[i].children) :
              i \in 1..Len(children)}

\* The paths (for a tree, the node labels) the last call reported.
ReportedPaths ==
    IF output.status # "ok" THEN {}
    ELSE IF op \in {"find", "analyze"}
    THEN {output.patterns[i].path : i \in 1..Len(output.patterns)}
    ELSE IF op = "tree" THEN NodeNames(output.children)
    ELSE IF op = "discover"
    THEN {output.top_patterns[i].path : i \in 1..Len(output.top_patterns)}
    ELSE IF op = "compare"
    THEN {output.changes[i].path : i \in 1..Len(output.changes)}
    ELSE {}

\* The values of field f in the records the caller analyses.
RawValues(f) ==
    {input.data[i][f] : i \in 1..Len(input.data)}
    \cup {input.baseline_data[i][f] : i \in 1..Len(input.baseline_data)}

ReportableValues == {"U", "u", "E", "e", "m", "w", "*"}

\* C17: after any sequence of add_preprocessor calls the registry holds for
\* a field the preprocessor registered last for it, and every value a find,
\* analyze, tree, discover or compare call reports for a field with a
\* registered preprocessor is the image under that preprocessor of a value
\* the field has in the data.
C17_AllMethodsPreprocess ==
    /\ op = "add_preprocessor" =>
           /\ options.field_name \in DOMAIN preprocessors
           /\ preprocessors[options.field_name] = options.preprocessor
    /\ \A f \in DOMAIN preprocessors, path \in ReportedPaths, v \in ReportableValues :
           Contains(path, Segment(f, v)) =>
               v \in {ApplyPreprocessor(preprocessors[f], raw) : raw \in RawValues(f)}

-----------------------------------------------------------------------------
(* Properties of the order of the changes.                                 *)

\* |count_change_percentage| of change a is at least that of change b, an
\* infinite percentage being above every finite one.
AtLeastAsLarge(a, b) ==
    LET pa == a.count_change_percentage
        pb == b.count_change_percentage
    IN  \/ pa.inf
        \/ ~pb.inf /\ Abs(pa.num) * pb.den >= Abs(pb.num) * pa.den

\* C21: in the changes list every significant change precedes every
\* insignificant one, and within each of the two groups the changes are in
\* non-increasing order of |count_change_percentage|, an infinite change
\* never being placed after a change with a finite percentage.
C21_SignificantFirstThenByMagnitude ==
    op = "compare_patterns" =>
        \A i, j \in 1..Len(output.changes) :
            i < j =>
                /\ output.changes[i].is_significant \/ ~output.changes[j].is_significant
                /\ output.changes[i].is_significant = output.changes[j].is_significant
                       => AtLeastAsLarge(output.changes[i], output.changes[j])

-----------------------------------------------------------------------------
(* Properties of discover calls: determinism.                              *)

\* What Discovery.execute returns for the records it analyses when the
\* detected fields are iterated in the order `order`.
DiscoverResult(in, o, order) == DiscoverOutput(in, DiscoverLocals(in, o, order))

\* C22: discover is deterministic: whatever the iteration order of the set
\* the detected field names are collected in, a call with the same records,
\* query and options returns the same field_ranking, the same
\* combinations_tried and the same top_patterns.
C22_DiscoverIsDeterministic ==
    (op = "discover" /\ output.status = "ok" /\ input.raising = {}
        /\ DiscoverData(input) # <<>>) =>
        \A order \in Orders(AllFields(DiscoverData(input))) :
            LET other == DiscoverResult(input, options, order)
            IN  /\ other.field_ranking = output.field_ranking
                /\ other.combinations_tried = output.combinations_tried
                /\ other.top_patterns = output.top_patterns

-----------------------------------------------------------------------------
(* Properties of field detection.                                          *)

\* The sampled records: the first min(100, N).
Sampled == Take(input.data, Min({SampleSize, Len(input.data)}))

\* The positions of the sampled records that carry a value of field f.
NonNull(f) == {i \in 1..Len(Sampled) : Sampled[i][f] # ""}

\* The distinct texts of the sampled values of field f.
DistinctTexts(f) == {Str(Sampled[i][f]) : i \in NonNull(f)}

\* C23: field detection looks only at the first min(100, N) records and
\* keeps a field exactly when, n being the number of its non-null sampled
\* values and u the number of their distinct texts, u >= 2 and, if n > 5,
\* also u <= 0.8 * n and u / n < 0.95.
C23_KeptExactlyWhenCategorical ==
    op = "detect" =>
        \A f \in {"c", "d", "e"} :
            LET n == Cardinality(NonNull(f))
                u == Cardinality(DistinctTexts(f))
            IN  f \in Elements(output.categorical_fields) <=>
                    /\ u >= 2
                    /\ n > 5 => (u * 10 <= 8 * n /\ u * 100 < 95 * n)

\* Detection has decided on a column longer than the sample whose field d
\* changes only past the sample, with field c on its 80% boundary.
C23_Witness ==
    /\ op = "detect"
    /\ Len(input.data) > SampleSize
    /\ Cardinality({input.data[i].d : i \in 1..Len(input.data)}) = 2
    /\ "d" \notin Elements(output.categorical_fields)
    /\ "c" \in Elements(output.categorical_fields)
    /\ Cardinality(DistinctTexts("c")) * 10 = 8 * Cardinality(NonNull("c"))

-----------------------------------------------------------------------------
(* Properties of the order of find results.                                *)

\* C24: when no sort_by option is given, the patterns Finder.execute returns
\* (with or without a limit) are in non-increasing percentage order.
C24_UnsortedCallIsByPercentage ==
    (op = "find" /\ output.status = "ok" /\ ~IsSet(options.sort_by)) =>
        \A i, j \in 1..Len(output.patterns) :
            i < j => output.patterns[i].percentage >= output.patterns[j].percentage

-----------------------------------------------------------------------------
(* Properties of the merge of the combination search.                      *)

Triples(patterns) ==
    {<<patterns[i].path, patterns[i].count, patterns[i].percentage>> :
        i \in 1..Len(patterns)}

\* What the search finds when its runs finish in the order they are made.
SequentialPatterns ==
    DiscoverPatternCombinations(input.data, locals.field_scores, options,
                                input.raising).all_patterns

\* C25: in whatever order the Finder runs of the search finish, two
\* occurrences of a path found by different runs carry the same count and
\* percentage, and the (path, count, percentage) triples left after
\* deduplication are those of the runs finishing in the order they are made.
C25_MergeIsOrderIndependent ==
    op \in {"search", "merged"} =>
        /\ \A i, j \in 1..Len(locals.all_patterns) :
               locals.all_patterns[i].path = locals.all_patterns[j].path =>
                   /\ locals.all_patterns[i].count = locals.all_patterns[j].count
                   /\ locals.all_patterns[i].percentage
                          = locals.all_patterns[j].percentage
        /\ op = "merged" =>
               Triples(output.top_patterns)
                   = Triples(RankAndDeduplicatePatterns(SequentialPatterns))

\* A merge of runs that finished in another order than they were made, two
\* of them having found the same path.
C25_Witness ==
    /\ op = "merged"
    /\ locals.all_patterns # SequentialPatterns
    /\ \E i, j \in 1..Len(locals.all_patterns) :
           i # j /\ locals.all_patterns[i].path = locals.all_patterns[j].path
    /\ Len(output.top_patterns) >= 3

-----------------------------------------------------------------------------
(* Properties of the statuses and buckets of compare.                      *)

\* C26: compare never assigns the status DISAPPEARED: no
\* count_change_percentage is below -100, and a path held by the baseline
\* pattern set only has current_count = 0 and the status CRITICAL_DECREASE
\* and is listed in disappeared_patterns and in decreased_patterns.
C26_DisappearedIsCriticalDecrease ==
    (op = "compare" /\ output.status = "ok") =>
        /\ \A i \in 1..Len(output.changes) :
               LET ch == output.changes[i] IN
               /\ ch.status # "DISAPPEARED"
               /\ ~ch.count_change_percentage.inf =>
                      ch.count_change_percentage.num
                          >= -100 * ch.count_change_percentage.den
        /\ \A path \in DOMAIN locals.baseline_patterns \ DOMAIN locals.current_patterns :
               \E i \in 1..Len(output.changes) :
                   LET ch == output.changes[i] IN
                   /\ ch.path = path
                   /\ ch.current_count = 0
                   /\ ch.status = "CRITICAL_DECREASE"
                   /\ ch \in Elements(output.disappeared_patterns)
                   /\ ch \in Elements(output.decreased_patterns)

\* A compare result with a path of the baseline that the current data lacks,
\* beside a path both hold.
C26_Witness ==
    /\ op = "compare"
    /\ output.status = "ok"
    /\ DOMAIN locals.baseline_patterns \ DOMAIN locals.current_patterns # {}
    /\ DOMAIN locals.baseline_patterns \cap DOMAIN locals.current_patterns # {}
    /\ Len(output.disappeared_patterns) >= 1

\* The five buckets of a compare result.
Buckets ==
    <<output.stable_patterns, output.new_patterns, output.disappeared_patterns,
      output.increased_patterns, output.decreased_patterns>>

\* The changes of bucket b, in the order of the changes list.
InChangesOrder(b) == SelectSeq(output.changes, LAMBDA c : c \in Elements(b))

\* C27: in every categorized compare result each change is in at least one of the five
\* buckets; the stable, increased and decreased buckets are pairwise
\* disjoint; no change is both new and disappeared; and each bucket lists
\* its changes in the relative order of the changes list.
C27_BucketsCoverAndKeepOrder ==
    op = "categorize" =>
        /\ \A i \in 1..Len(output.changes) :
               /\ \E k \in 1..5 : output.changes[i] \in Elements(Buckets[k])
               /\ ~(output.changes[i].is_new /\ output.changes[i].is_disappeared)
        /\ Elements(output.stable_patterns) \cap Elements(output.increased_patterns) = {}
        /\ Elements(output.stable_patterns) \cap Elements(output.decreased_patterns) = {}
        /\ Elements(output.increased_patterns) \cap Elements(output.decreased_patterns) = {}
        /\ \A k \in 1..5 : Buckets[k] = InChangesOrder(Buckets[k])

\* Categorized changes with two decreases in one bucket, the first of them
\* a disappeared path, the second a slight decrease.
C27_Witness ==
    /\ op = "categorize"
    /\ Len(output.decreased_patterns) = 2
    /\ output.decreased_patterns[1].status = "CRITICAL_DECREASE"
    /\ output.decreased_patterns[2].status = "SLIGHT_DECREASE"
    /\ output.decreased_patterns[1] \in Elements(output.disappeared_patterns)

-----------------------------------------------------------------------------
(* Properties of compare on filtered pattern sets.                         *)

\* The paths of the patterns of `data`, before any pattern filter.
RawPaths(data) ==
    LET ps == ExtractedPatterns(FindInput(data, input.fields, NoQuery))
    IN  {ps[i].path : i \in 1..Len(ps)}

\* The paths of `data` that pass the pattern filters and the limit.
PassingPaths(data) == DOMAIN GetPatterns(data, input.fields, options)

\* The paths the records of both datasets hold.
SharedPaths == RawPaths(CurrentData(input)) \cap RawPaths(BaselineData(input))

\* C28: the pattern filters and the limit are applied to each dataset before
\* the diff: a path of the records of both datasets that passes them in the
\* current dataset only is reported with baseline_count = 0, is_new true and
\* the status NEW, and one that passes in the baseline only with
\* current_count = 0 and is_disappeared true.
C28_FilteredOutCountsAsAbsent ==
    (op = "compare" /\ output.status = "ok") =>
        \A path \in SharedPaths :
            /\ (path \in PassingPaths(CurrentData(input))
                    /\ path \notin PassingPaths(BaselineData(input))) =>
                   \E i \in 1..Len(output.changes) :
                       /\ output.changes[i].path = path
                       /\ output.changes[i].baseline_count = 0
                       /\ output.changes[i].is_new
                       /\ output.changes[i].status = "NEW"
            /\ (path \in PassingPaths(BaselineData(input))
                    /\ path \notin PassingPaths(CurrentData(input))) =>
                   \E i \in 1..Len(output.changes) :
                       /\ output.changes[i].path = path
                       /\ output.changes[i].current_count = 0
                       /\ output.changes[i].is_disappeared

\* A compare result with a path of both datasets that min_count keeps in
\* the current dataset and drops from the baseline.
C28_Witness ==
    /\ op = "compare"
    /\ output.status = "ok"
    /\ IsSet(options.min_count)
    /\ \E path \in SharedPaths :
           /\ path \in PassingPaths(CurrentData(input))
           /\ path \notin PassingPaths(BaselineData(input))
           /\ \E i \in 1..Len(output.changes) :
                  output.changes[i].path = path /\ output.changes[i].status = "NEW"

-----------------------------------------------------------------------------
(* Properties of combinations_tried.                                       *)

\* s lists some of the elements of t, each once, in the order of t.
IsSubsequence(s, t) ==
    \E pos \in [1..Len(s) -> 1..Len(t)] :
        /\ \A i \in 1..Len(s) : t[pos[i]] = s[i]
        /\ \A i, j \in 1..Len(s) : i < j => pos[i] < pos[j]

\* The top max_fields + 2 fields of the returned field_ranking.
Candidates ==
    [i \in 1..Min({options.max_fields + 2, Len(output.field_ranking)}) |->
        output.field_ranking[i].field]

\* C29: every entry of combinations_tried lists between 1 and max_fields
\* distinct fields of the top max_fields + 2 of field_ranking, in
\* field_ranking order; no field list is tried twice; sizes never decrease
\* along the list; and there is one entry for every Finder run of the
\* combination search, also for a run that found no pattern.
C29_CombinationsTriedWellFormed ==
    (op = "discover" /\ output.status = "ok" /\ locals # NoDiscoverLocals) =>
        LET tried == output.combinations_tried IN
        /\ \A i \in 1..Len(tried) :
               /\ Len(tried[i].fields) \in 1..options.max_fields
               /\ Cardinality(Elements(tried[i].fields)) = Len(tried[i].fields)
               /\ IsSubsequence(tried[i].fields, Candidates)
        /\ \A i, j \in 1..Len(tried) :
               i < j => /\ tried[i].fields # tried[j].fields
                        /\ Len(tried[i].fields) <= Len(tried[j].fields)
        /\ Len(tried) = Len(locals.search.runs)
        /\ \A i \in 1..Len(tried) : tried[i].fields = locals.search.runs[i]

\* A discover result whose search ran single fields and a pair, one of the
\* runs having found no pattern.
C29_Witness ==
    /\ op = "discover"
    /\ output.status = "ok"
    /\ \E i, j \in 1..Len(output.combinations_tried) :
           /\ Len(output.combinations_tried[i].fields) = 1
           /\ Len(output.combinations_tried[j].fields) = 2
           /\ output.combinations_tried[j].patterns_found = 0

-----------------------------------------------------------------------------
(* Properties of the statistics of compare.                                *)

\* C30: in every compare result patterns_compared is the length of changes,
\* which holds exactly one change for every path of the union of the two
\* pattern sets; significant_changes is the number of changes with
\* is_significant true; current_total and baseline_total are the sizes of
\* the two record lists as given, before the query is applied.
C30_StatisticsCountChanges ==
    (op = "compare" /\ output.status = "ok") =>
        LET paths == DOMAIN locals.current_patterns \cup DOMAIN locals.baseline_patterns
        IN  /\ output.statistics.patterns_compared = Len(output.changes)
            /\ Len(output.changes) = Cardinality(paths)
            /\ \A path \in paths :
                   Cardinality({i \in 1..Len(output.changes) :
                                   output.changes[i].path = path}) = 1
            /\ output.statistics.significant_changes
                   = Cardinality({i \in 1..Len(output.changes) :
                                     output.changes[i].is_significant})
            /\ output.statistics.current_total = Len(input.current_data)
            /\ output.statistics.baseline_total = Len(input.baseline_data)

\* A compare result whose query dropped a record of the current data, with
\* a significant and an insignificant change.
C30_Witness ==
    /\ op = "compare"
    /\ output.status = "ok"
    /\ Len(CurrentData(input)) < Len(input.current_data)
    /\ Len(output.changes) >= 2
    /\ output.statistics.significant_changes \in 1..(Len(output.changes) - 1)

====
